---- MODULE Spec2Model ----
(***************************************************************************)
(* STRATCOM Global Command: the region catalog, the spatial index, the     *)
(* point locator, the canvas rasterizers and the input handler, as state   *)
(* machines translated from the JavaScript sources.                        *)
(*                                                                         *)
(* Conventions                                                             *)
(*  - JavaScript null/undefined of an optional value is the empty tuple    *)
(*    << >>; a present value v is the one-element tuple <<v>> (or, for a    *)
(*    centroid, the pair <<lat, lon>>).                                     *)
(*  - Latitudes and longitudes are fixed-point numbers in QUARTER DEGREES  *)
(*    (Deg(10) = 40), so two different positions fall into one 0.5 degree  *)
(*    grid cell.  Attribute texts are finite decimal literals on this      *)
(*    lattice; parseFloat of such a text is its lattice value.             *)
(*  - A JavaScript Map is a pair: a function (the entries) and a sequence  *)
(*    of keys (the insertion order that forEach / keys() follow).          *)
(***************************************************************************)
EXTENDS Integers, Sequences, FiniteSets, TLC

VARIABLES
    \* ---- MapManager (src/public/js/core/MapManager.js) ----
    states,          \* this.states: id -> [id, centroid, owner, color, data]
    stateOrder,      \* insertion order of this.states
    stateElements,   \* this.stateElements: id -> [fill, dataOriginalFill]
    svgDoc,          \* this.svgDoc: << >> or <<document>>
    isLoaded,        \* this.isLoaded
    spatialIndex,    \* this.spatialIndex: cell index -> sequence of ids
    \* ---- SVGGlobeRenderer (src/unnamed/part_002) ----
    regions,         \* this.regions: id -> [id, pathData, owner, selected]
    regionOrder,     \* insertion order of this.regions
    globeSvgDoc,     \* this.svgDoc of the renderer: << >> or <<document>>
    textureCanvas,   \* this.textureCanvas: << >> or <<[width, height, pixels, ctm]>>
    texture,         \* this.texture: << >> or <<[needsUpdate]>>
    \* ---- bookkeeping of the calls made (not program state) ----
    lastRender,      \* << >> or <<[input, ops]>>: what the last renderToCanvas
                     \* call read and drew
    indexedFrom,     \* << >> or <<stateData>>: argument of the last buildSpatialIndex
    lastLookup,      \* << >> or <<[lat, lon, candidates, threw, value]>>: the last
                     \* lookup made since the catalog and the index last changed
    lastCall,        \* [op, ids, threw, ret, pre]: the last method call, the
                     \* region identifiers it named, its outcome, and what it
                     \* found (selected regions, an index of the same input)
    loads,           \* number of loadSVG calls made so far
    \* ---- InputHandler (src/public/js/core/InputHandler.js) and the canvas it
    \*      has MapManager.renderToCanvas draw into ----
    now,             \* performance.now(), in milliseconds
    lastHoverCheck,  \* this.lastHoverCheck
    mouse,           \* the surface point under (mouseX, mouseY): << >> off the globe
    hoveredState,    \* this.hoveredState: << >> or <<id>>
    selectedState,   \* this.selectedState: << >> or <<id>>
    selectCalls,     \* arguments of the onStateSelect calls the last step made
    mapCanvas,       \* MapManager.canvas: << >> or <<writes since the last clear>>
    inflight,        \* renderToCanvas calls whose image has not loaded yet
    renders,         \* number of renderToCanvas calls started
    lastRasterAt,    \* << >> or <<time the last renderToCanvas call started>>
    mapTexture,      \* what updateMapTexture last copied from the canvas
    \* ---- StratcomGame (src/public/js/main.js) ----
    initStage,       \* where init() stands: "start", "loadMap", "render" (awaiting
                     \* the first rasterization), "ready" or "failed"
    globeInit,       \* outcome of globe.init(): "pending", "ok" or "failed"
    pathsTried,      \* candidate map paths loadMap has tried
    proceduralMaps,  \* generateProceduralMap calls made
    gameDate,        \* this.gameDate: [year, month, day]
    gameSpeed,       \* this.gameSpeed
    currentSpeed,    \* HUDController.currentSpeed
    autoRotate,      \* GlobeRenderer.autoRotate
    \* ---- FirebaseService: the lobby document and the joinLobby calls ----
    lobby,           \* the document lobbies/<code>: << >> or <<[status, maxPlayers,
                     \* hostId, players]>>, players a function uid -> [isHost]
    joining          \* uid -> << >>, or <<doc.data()>> of a joinLobby call that has
                     \* read the document and not yet sent its update

mapVars == <<states, stateOrder, stateElements, svgDoc, isLoaded, spatialIndex>>
inputVars == <<now, lastHoverCheck, mouse, hoveredState, selectedState, selectCalls>>
rasterVars == <<mapCanvas, inflight, renders, lastRasterAt, mapTexture>>
globeVars == <<regions, regionOrder, globeSvgDoc, textureCanvas, texture>>
logVars == <<indexedFrom, lastLookup, lastRender, lastCall, loads>>
gameVars == <<initStage, globeInit, pathsTried, proceduralMaps>>
clockVars == <<gameDate, gameSpeed, currentSpeed, autoRotate>>
lobbyVars == <<lobby, joining>>
vars == <<mapVars, globeVars, logVars, inputVars, rasterVars, gameVars, clockVars,
         lobbyVars>>

----------------------------------------------------------------------------
(* Bounds of the model *)

MaxLoads == 2        \* MapManager.loadSVG calls in one behaviour
MaxGlobeLoads == 1   \* SVGGlobeRenderer.loadSVG calls in one behaviour
MaxRenders == 2      \* MapManager.renderToCanvas calls in one behaviour
MaxTime == 60        \* the clock stops here (milliseconds)
MaxSaved == 1        \* canvas states saved and never restored
MaxYear == 2025      \* tick() is followed through the end of this year

----------------------------------------------------------------------------
(* Small helpers *)

Deg(d) == 4 * d      \* whole degrees as quarter degrees

Min(a, b) == IF a < b THEN a ELSE b
Max(a, b) == IF a > b THEN a ELSE b
Abs(a) == IF a < 0 THEN 0 - a ELSE a

Null == << >>
Some(v) == <<v>>

NoCall == [op |-> "none", ids |-> << >>, threw |-> FALSE, ret |-> "undefined", pre |-> {}]
Call(op, ids, threw, ret) ==
    [op |-> op, ids |-> ids, threw |-> threw, ret |-> ret, pre |-> {}]
CallFrom(op, ids, threw, ret, pre) ==
    [op |-> op, ids |-> ids, threw |-> threw, ret |-> ret, pre |-> pre]
Log(call) == lastCall' = call

InitLog ==
    /\ indexedFrom = Null
    /\ lastLookup = Null
    /\ lastRender = Null
    /\ lastCall = NoCall
    /\ loads = 0

----------------------------------------------------------------------------
(* MapManager: constructor *)

cellsX == 720
cellsY == 360
Infinity == 2147483647

EmptyGrid == [c \in {} |-> << >>]

InitInput ==
    /\ now = 0
    /\ lastHoverCheck = 0
    /\ mouse = Null
    /\ hoveredState = Null
    /\ selectedState = Null
    /\ selectCalls = << >>
    /\ mapCanvas = Null
    /\ inflight = {}
    /\ renders = 0
    /\ lastRasterAt = Null
    /\ mapTexture = Null

\* StratcomGame before init() runs
InitGame ==
    /\ initStage = "start"
    /\ globeInit = "pending"
    /\ pathsTried = 0
    /\ proceduralMaps = 0

\* the signed-in users of the lobby service
Users == {"host", "ann", "bob"}

\* no lobby document yet and no joinLobby call under way
InitLobby ==
    /\ lobby = Null
    /\ joining = [u \in Users |-> Null]

InitMap ==
    /\ states = [k \in {} |-> << >>]
    /\ stateOrder = << >>
    /\ stateElements = [k \in {} |-> << >>]
    /\ svgDoc = Null
    /\ isLoaded = FALSE
    /\ spatialIndex = EmptyGrid

----------------------------------------------------------------------------
(* MapManager: vector map sources and loadSVG / extractStates *)

NoAttr == [kind |-> "absent", val |-> 0]
EmptyAttr == [kind |-> "empty", val |-> 0]
NumAttr(v) == [kind |-> "num", val |-> v]

\* JavaScript truthiness of an attribute value: null and "" are falsy.
Truthy(attr) == attr.kind = "num"
parseFloat(attr) == attr.val

PathEl(id, lat, lon) == [tag |-> "path", id |-> id, lat |-> lat, lon |-> lon]
PathAt(id, latDeg4, lonDeg4) == PathEl(id, NumAttr(latDeg4), NumAttr(lonDeg4))
GroupEl(id) == [tag |-> "g", id |-> id, lat |-> NoAttr, lon |-> NoAttr]

\* The maps a fetch can deliver: sequences of identified elements in
\* document order.
MapDocs ==
    { << PathAt("A", Deg(10), Deg(10)), PathAt("B", Deg(-10), Deg(-10)),
         PathEl("C", NoAttr, NoAttr) >>,
      << PathAt("A", Deg(10), Deg(10)), PathAt("B", Deg(10), Deg(11)) >>,
      << PathAt("B", Deg(10), Deg(11)), PathAt("A", Deg(10), Deg(10)) >>,
      << PathAt("C", Deg(-90), Deg(180)) >>,
      << PathAt("A", Deg(80), Deg(0)), PathEl("B", NumAttr(Deg(10)), EmptyAttr) >>,
      << GroupEl("C"), PathAt("B", Deg(60), Deg(180) - 1) >>,
      << PathAt("C", Deg(91), Deg(-181)) >>,
      << >> }

\* What fetch + DOMParser yield: a rejected fetch, a response that is not
\* ok, a body that is not well-formed, or a well-formed document.
MapSources ==
    { [fetch |-> f, wellFormed |-> FALSE, elems |-> << >>] : f \in {"reject", "notok", "ok"} }
    \cup { [fetch |-> "ok", wellFormed |-> TRUE, elems |-> d] : d \in MapDocs }

centroidOf(el) ==
    IF Truthy(el.lat) /\ Truthy(el.lon)
    THEN <<parseFloat(el.lat), parseFloat(el.lon)>>
    ELSE Null

\* data: {} is the object with no keys
NoData == [k \in {} |-> 0]

NewState(id, centroid) ==
    [id |-> id, centroid |-> centroid, owner |-> Null, color |-> Null, data |-> NoData]

NewElement == [fill |-> "", dataOriginalFill |-> Null]

\* Map.prototype.set on the pair (entries, order)
MapSet(entries, key, value) ==
    (key :> value) @@ entries
OrderSet(order, entries, key) ==
    IF key \in DOMAIN entries THEN order ELSE Append(order, key)

\* extractStates: first every path[id], then every g[id] not yet catalogued.
\* cat = [states, order, elements]
RECURSIVE ExtractPaths(_, _, _)
ExtractPaths(cat, elems, i) ==
    IF i > Len(elems) THEN cat
    ELSE LET el == elems[i] IN
         IF el.tag = "path"
         THEN ExtractPaths(
                [states   |-> MapSet(cat.states, el.id, NewState(el.id, centroidOf(el))),
                 order    |-> OrderSet(cat.order, cat.states, el.id),
                 elements |-> MapSet(cat.elements, el.id, NewElement)],
                elems, i + 1)
         ELSE ExtractPaths(cat, elems, i + 1)

RECURSIVE ExtractGroups(_, _, _)
ExtractGroups(cat, elems, i) ==
    IF i > Len(elems) THEN cat
    ELSE LET el == elems[i] IN
         IF el.tag = "g" /\ el.id \notin DOMAIN cat.states
         THEN ExtractGroups(
                [states   |-> MapSet(cat.states, el.id, NewState(el.id, Null)),
                 order    |-> OrderSet(cat.order, cat.states, el.id),
                 elements |-> MapSet(cat.elements, el.id, NewElement)],
                elems, i + 1)
         ELSE ExtractGroups(cat, elems, i + 1)

extractStates_GroupsFirst(cat, elems) ==
    ExtractPaths(ExtractGroups(cat, elems, 1), elems, 1)

extractStates(cat, elems) == ExtractGroups(ExtractPaths(cat, elems, 1), elems, 1)

\* what the caller's source turns out to be
SourceKind(src) ==
    IF src.fetch # "ok" THEN {"fetch failed"}
    ELSE IF ~src.wellFormed THEN {"not well-formed"}
    ELSE IF src.elems = << >> THEN {"no identified element"}
    ELSE {"identified elements"}

\* loadSVG(svgPath): the try block up to the first throw, and the catch;
\* what it leaves in the manager and what it returns.
loadSVG_LoadedBeforeCheck(src) ==
    LET kept == [svgDoc |-> svgDoc, states |-> states, order |-> stateOrder,
                 elements |-> stateElements, isLoaded |-> isLoaded, ret |-> "false"]
    IN IF src.fetch # "ok"
       THEN kept
       ELSE IF ~src.wellFormed
       THEN [kept EXCEPT !.svgDoc = Some([wellFormed |-> FALSE, elems |-> << >>]),
                         !.isLoaded = TRUE]
       ELSE LET cat == extractStates(
                          [states |-> states, order |-> stateOrder,
                           elements |-> stateElements], src.elems)
            IN [svgDoc |-> Some([wellFormed |-> TRUE, elems |-> src.elems]),
                states |-> cat.states, order |-> cat.order, elements |-> cat.elements,
                isLoaded |-> TRUE, ret |-> "true"]

loadSVG(src) ==
    LET kept == [svgDoc |-> svgDoc, states |-> states, order |-> stateOrder,
                 elements |-> stateElements, isLoaded |-> isLoaded, ret |-> "false"]
    IN IF src.fetch # "ok"
       THEN \* fetch rejected or !response.ok: thrown before svgDoc is assigned
            kept
       ELSE IF ~src.wellFormed
       THEN \* parsererror: svgDoc already holds the error document
            [kept EXCEPT !.svgDoc = Some([wellFormed |-> FALSE, elems |-> << >>])]
       ELSE LET cat == extractStates(
                          [states |-> states, order |-> stateOrder,
                           elements |-> stateElements], src.elems)
            IN [svgDoc |-> Some([wellFormed |-> TRUE, elems |-> src.elems]),
                states |-> cat.states, order |-> cat.order, elements |-> cat.elements,
                isLoaded |-> TRUE, ret |-> "true"]

LoadSVG(src) ==
    LET r == loadSVG(src)
    IN  /\ loads < MaxLoads
        /\ loads' = loads + 1
        /\ svgDoc' = r.svgDoc
        /\ states' = r.states
        /\ stateOrder' = r.order
        /\ stateElements' = r.elements
        /\ isLoaded' = r.isLoaded
        /\ Log(CallFrom("loadSVG", << >>, FALSE, r.ret, SourceKind(src)))
        /\ lastLookup' = Null
        /\ UNCHANGED <<gameVars, clockVars, lobbyVars, inputVars, rasterVars,
                       indexedFrom, globeVars,
                       lastRender, spatialIndex>>

----------------------------------------------------------------------------
(* MapManager: buildSpatialIndex *)

Clamp(v, hi) == Max(0, Min(hi, v))

GridX(lon) == ((lon + Deg(180)) * cellsX) \div Deg(360)
GridY(lat) == ((Deg(90) - lat) * cellsY) \div Deg(180)

Offsets_Radius1 == [k \in 1..9 |-> << ((k - 1) \div 3) - 1, ((k - 1) % 3) - 1 >>]

\* (dx, dy) in the order of the two nested loops: dx outer, dy inner
Offsets == [k \in 1..25 |-> << ((k - 1) \div 5) - 2, ((k - 1) % 5) - 2 >>]

\* the same neighbourhood with the column taken modulo the grid width
MarkedCells_Wrapped(state) ==
    LET gridX == GridX(state.centroid[2])
        gridY == GridY(state.centroid[1])
    IN  [k \in 1..Len(Offsets) |->
            Clamp(gridY + Offsets[k][2], cellsY - 1) * cellsX
                + ((gridX + Offsets[k][1]) % cellsX)]

\* The cells one state is pushed into, in the order of the two loops
\* (with repetitions where the clamp folds several offsets into one cell).
MarkedCells(state) ==
    LET gridX == GridX(state.centroid[2])
        gridY == GridY(state.centroid[1])
    IN  [k \in 1..Len(Offsets) |->
            Clamp(gridY + Offsets[k][2], cellsY - 1) * cellsX
                + Clamp(gridX + Offsets[k][1], cellsX - 1)]

\* Every push of stateData.forEach, in execution order: <<cell, id>>
Pushes(stateData) ==
    LET HasCentroid(state) == state.centroid # Null
        marked == SelectSeq(stateData, HasCentroid)
        n == Len(Offsets)
    IN  [p \in 1..(n * Len(marked)) |->
            << MarkedCells(marked[((p - 1) \div n) + 1])[((p - 1) % n) + 1],
               marked[((p - 1) \div n) + 1].id >>]

\* The grid after the pushes: a cell that was null becomes [], then every
\* push appends to its cell
InsertStates(index, stateData) ==
    LET pushes == Pushes(stateData)
        touched == {pushes[p][1] : p \in DOMAIN pushes}
        PushedTo(cell) ==
            LET Hits(push) == push[1] = cell
                hits == SelectSeq(pushes, Hits)
            IN  [h \in 1..Len(hits) |-> hits[h][2]]
    IN  [cell \in DOMAIN index \cup touched |->
            (IF cell \in DOMAIN index THEN index[cell] ELSE << >>) \o PushedTo(cell)]

\* Array.from(this.states.values()): the catalog's records in insertion order
CatalogData == [i \in 1..Len(stateOrder) |-> states[stateOrder[i]]]

BuildSpatialIndex_NoReset(stateData) ==
    /\ spatialIndex' = InsertStates(spatialIndex, stateData)
    /\ indexedFrom' = Some(stateData)
    /\ Log(CallFrom("buildSpatialIndex", << >>, FALSE, "undefined",
                    IF indexedFrom = Some(stateData) THEN {"same input"} ELSE {}))
    /\ lastLookup' = Null
    /\ UNCHANGED <<gameVars, clockVars, lobbyVars, inputVars, rasterVars,
                   states, stateOrder, stateElements, svgDoc,
                   isLoaded, loads, globeVars, lastRender>>

BuildSpatialIndex(stateData) ==
    /\ spatialIndex' = InsertStates(EmptyGrid, stateData)
    /\ indexedFrom' = Some(stateData)
    /\ Log(CallFrom("buildSpatialIndex", << >>, FALSE, "undefined",
                    IF indexedFrom = Some(stateData) THEN {"same input"} ELSE {}))
    /\ lastLookup' = Null
    /\ UNCHANGED <<gameVars, clockVars, lobbyVars, inputVars, rasterVars,
                   states, stateOrder, stateElements, svgDoc,
                   isLoaded, loads, globeVars, lastRender>>

----------------------------------------------------------------------------
(* MapManager: haversineDistance and findStateAtCoords *)

\* Fixed-point trigonometry.  CosTab(lat) is cos(lat) * 10^4 and HavTab(d)
\* is sin^2(d / 2) * 10^9, both rounded, for the quarter-degree arguments
\* that the catalogued centroids and the query points of this model produce.
CosTab(latQ) ==
    CASE latQ = -364 -> -175 [] latQ = -360 -> 0 [] latQ = -40 -> 9848 [] latQ = 36 -> 9877
      [] latQ = 40 -> 9848 [] latQ = 44 -> 9816 [] latQ = 240 -> 5000 [] latQ = 320 -> 1736
      [] latQ = 356 -> 175 [] latQ = 364 -> -175

HavTab(dQ) ==
    CASE dQ = 0 -> 0 [] dQ = 1 -> 4760 [] dQ = 2 -> 19038 [] dQ = 3 -> 42836
      [] dQ = 4 -> 76152 [] dQ = 5 -> 118986 [] dQ = 8 -> 304586 [] dQ = 9 -> 385482
      [] dQ = 12 -> 685233 [] dQ = 28 -> 3726924 [] dQ = 32 -> 4865966 [] dQ = 35 -> 5819245
      [] dQ = 36 -> 6155830 [] dQ = 40 -> 7596123 [] dQ = 42 -> 8372546 [] dQ = 44 -> 9186408
      [] dQ = 52 -> 12814968 [] dQ = 75 -> 26534935 [] dQ = 76 -> 27240712 [] dQ = 80 -> 30153690
      [] dQ = 82 -> 31663905 [] dQ = 84 -> 33209787 [] dQ = 116 -> 62690146 [] dQ = 124 -> 71416350
      [] dQ = 196 -> 171970486 [] dQ = 200 -> 178606195 [] dQ = 204 -> 185339804 [] dQ = 276 -> 320816025
      [] dQ = 280 -> 328989928 [] dQ = 284 -> 337215923 [] dQ = 316 -> 404595502 [] dQ = 320 -> 413175911
      [] dQ = 324 -> 421782767 [] dQ = 328 -> 430413450 [] dQ = 360 -> 500000000 [] dQ = 396 -> 578217233
      [] dQ = 400 -> 586824089 [] dQ = 404 -> 595404498 [] dQ = 600 -> 933012702 [] dQ = 604 -> 937309854
      [] dQ = 672 -> 989073800 [] dQ = 675 -> 990392640 [] dQ = 676 -> 990813592 [] dQ = 677 -> 991225199
      [] dQ = 678 -> 991627454 [] dQ = 679 -> 992020349 [] dQ = 680 -> 992403877 [] dQ = 683 -> 993498183
      [] dQ = 684 -> 993844170 [] dQ = 685 -> 994180755 [] dQ = 707 -> 999195835 [] dQ = 708 -> 999314767
      [] dQ = 715 -> 999881014 [] dQ = 716 -> 999923848 [] dQ = 719 -> 999995240 [] dQ = 720 -> 1000000000
      [] dQ = 724 -> 999923848 [] dQ = 728 -> 999695414 [] dQ = 736 -> 998782025 [] dQ = 756 -> 993844170
      [] dQ = 759 -> 992778030 [] dQ = 760 -> 992403877 [] dQ = 763 -> 991225199 [] dQ = 764 -> 990813592
      [] dQ = 766 -> 989962352 [] dQ = 768 -> 989073800 [] dQ = 1438 -> 19038 [] dQ = 1439 -> 4760
      [] dQ = 1440 -> 0 [] dQ = 1443 -> 42836 [] dQ = 1444 -> 76152 [] dQ = 1448 -> 304586

\* floor(c * h / 10^8) without leaving 32 bits: c <= 10^8, h <= 10^9
MulDiv8(c, h) ==
    LET ch == c \div 10000
        cl == c % 10000
        hh == h \div 10000
        hl == h % 10000
    IN  ch * hh + ((ch * hl + cl * hh) + ((cl * hl) \div 10000)) \div 10000

\* a = sin^2(dLat/2) + cos(lat1) cos(lat2) sin^2(dLon/2), scaled by 10^9.
\* The code returns R * 2 * atan2(sqrt(a), sqrt(1 - a)), which is strictly
\* increasing in a on [0, 1]; its only use is the comparison dist < minDist,
\* so the distance is represented by a.
haversineDistance(lat1, lon1, lat2, lon2) ==
    HavTab(Abs(lat2 - lat1))
        + MulDiv8(CosTab(lat1) * CosTab(lat2), HavTab(Abs(lon2 - lon1)))

CellOf_NoClamp(lat, lon) == GridY(lat) * cellsX + GridX(lon)

\* the clamped grid cell of a query point
CellOf(lat, lon) ==
    Clamp(GridY(lat), cellsY - 1) * cellsX + Clamp(GridX(lon), cellsX - 1)

\* this.spatialIndex[index]: undefined/null as << >>, a list l as <<l>>
CandidatesAt(index) ==
    IF index \in DOMAIN spatialIndex THEN Some(spatialIndex[index]) ELSE Null

RECURSIVE ScanCandidates_LastWins(_, _, _, _, _)
ScanCandidates_LastWins(candidates, i, lat, lon, scan) ==
    IF i > Len(candidates) THEN scan
    ELSE LET stateId == candidates[i]
             state == IF stateId \in DOMAIN states THEN Some(states[stateId]) ELSE Null
         IN IF state # Null /\ state[1].centroid # Null
            THEN LET dist == haversineDistance(lat, lon, state[1].centroid[1],
                                               state[1].centroid[2])
                 IN IF dist <= scan.minDist
                    THEN ScanCandidates_LastWins(candidates, i + 1, lat, lon,
                                        [closest |-> state, minDist |-> dist])
                    ELSE ScanCandidates_LastWins(candidates, i + 1, lat, lon, scan)
            ELSE ScanCandidates_LastWins(candidates, i + 1, lat, lon, scan)

\* the for loop over the candidates: scan = [closest, minDist]
RECURSIVE ScanCandidates(_, _, _, _, _)
ScanCandidates(candidates, i, lat, lon, scan) ==
    IF i > Len(candidates) THEN scan
    ELSE LET stateId == candidates[i]
             state == IF stateId \in DOMAIN states THEN Some(states[stateId]) ELSE Null
         IN IF state # Null /\ state[1].centroid # Null
            THEN LET dist == haversineDistance(lat, lon, state[1].centroid[1],
                                               state[1].centroid[2])
                 IN IF dist < scan.minDist
                    THEN ScanCandidates(candidates, i + 1, lat, lon,
                                        [closest |-> state, minDist |-> dist])
                    ELSE ScanCandidates(candidates, i + 1, lat, lon, scan)
            ELSE ScanCandidates(candidates, i + 1, lat, lon, scan)

Returned(v) == [threw |-> FALSE, value |-> v]
Threw == [threw |-> TRUE, value |-> Null]

findStateAtCoords_NoCandidateGuard(lat, lon) ==
    LET candidates == CandidatesAt(CellOf(lat, lon))
    IN  IF candidates = Null
        THEN Threw   \* iterating undefined is a TypeError
        ELSE Returned(ScanCandidates(candidates[1], 1, lat, lon,
                                     [closest |-> Null, minDist |-> Infinity]).closest)

findStateAtCoords_FirstCandidateDefault(lat, lon) ==
    LET candidates == CandidatesAt(CellOf(lat, lon))
    IN  IF candidates = Null \/ Len(candidates[1]) = 0
        THEN Returned(Null)
        ELSE Returned(ScanCandidates(candidates[1], 1, lat, lon,
                        [closest |-> IF candidates[1][1] \in DOMAIN states
                                     THEN Some(states[candidates[1][1]]) ELSE Null,
                         minDist |-> Infinity]).closest)

findStateAtCoords(lat, lon) ==
    LET candidates == CandidatesAt(CellOf(lat, lon))
    IN  IF candidates = Null \/ Len(candidates[1]) = 0
        THEN Returned(Null)
        ELSE Returned(ScanCandidates(candidates[1], 1, lat, lon,
                                     [closest |-> Null, minDist |-> Infinity]).closest)

\* The query points: <<lat, lon>> in quarter degrees
Queries ==
    { <<Deg(10), Deg(10)>>, <<Deg(-10), Deg(-10)>>, <<Deg(89), Deg(179)>>,
      <<Deg(10), Deg(10) + 2>>, <<Deg(10), Deg(11)>>, <<Deg(-90), Deg(180)>>,
      <<Deg(80), Deg(0)>>, <<Deg(80), Deg(3)>>, <<Deg(60), Deg(180) - 1>>,
      <<Deg(60), Deg(-180) + 1>>, <<Deg(-91), Deg(181)>>, <<Deg(91), Deg(-181)>>,
      <<Deg(11), Deg(10)>>, <<Deg(10), Deg(9) - 1>>, <<Deg(9), Deg(9)>>,
      <<Deg(80), Deg(1)>> }

\* A caller asks for the region at (lat, lon).
FindStateAtCoords(lat, lon) ==
    LET candidates == CandidatesAt(CellOf(lat, lon))
        result == findStateAtCoords(lat, lon)
    IN  /\ lastLookup' = Some([lat |-> lat, lon |-> lon,
                               candidates |-> IF candidates = Null THEN << >> ELSE candidates[1],
                               threw |-> result.threw, value |-> result.value])
        /\ Log(Call("findStateAtCoords", << >>, result.threw,
                            IF result.value = Null THEN "null" ELSE "state"))
        /\ UNCHANGED <<gameVars, clockVars, lobbyVars, inputVars, rasterVars,
                       mapVars, indexedFrom, loads, globeVars,
                       lastRender>>

----------------------------------------------------------------------------
(* MapManager: colour, highlight and data mutators *)

\* highlightState applied to the element map
highlightState(elements, stateId, highlightColor) ==
    IF stateId \in DOMAIN elements
    THEN [elements EXCEPT ![stateId] =
              [fill |-> highlightColor, dataOriginalFill |-> Some(@.fill)]]
    ELSE elements

\* unhighlightState applied to the element map: an absent or empty
\* data-original-fill is falsy and restores nothing
unhighlightState(elements, stateId) ==
    IF stateId \in DOMAIN elements
    THEN LET originalFill == elements[stateId].dataOriginalFill
         IN IF originalFill # Null /\ originalFill[1] # ""
            THEN [elements EXCEPT ![stateId].fill = originalFill[1]]
            ELSE elements
    ELSE elements

SetStateColor(stateId, color) ==
    /\ IF stateId \in DOMAIN stateElements
       THEN /\ stateElements' = [stateElements EXCEPT ![stateId].fill = color]
            /\ states' = IF stateId \in DOMAIN states
                         THEN [states EXCEPT ![stateId].color = Some(color)]
                         ELSE states
       ELSE UNCHANGED <<states, stateElements>>
    /\ Log(Call("setStateColor", <<stateId>>, FALSE, "undefined"))
    /\ UNCHANGED <<gameVars, clockVars, lobbyVars, inputVars, rasterVars,
                   stateOrder, svgDoc, isLoaded, spatialIndex,
                   indexedFrom, lastLookup, lastRender, loads, globeVars>>

\* Object.assign(state.data, data): the keys of data replace those of state.data
UpdateStateData(stateId, data) ==
    /\ states' = IF stateId \in DOMAIN states
                 THEN [states EXCEPT ![stateId].data = data @@ @]
                 ELSE states
    /\ Log(Call("updateStateData", <<stateId>>, FALSE, "undefined"))
    /\ UNCHANGED <<gameVars, clockVars, lobbyVars, inputVars, rasterVars,
                   stateOrder, stateElements, svgDoc, isLoaded,
                   spatialIndex, indexedFrom, lastLookup, lastRender, loads, globeVars>>

HighlightState(stateId, highlightColor) ==
    /\ stateElements' = highlightState(stateElements, stateId, highlightColor)
    /\ Log(Call("highlightState", <<stateId>>, FALSE, "undefined"))
    /\ UNCHANGED <<gameVars, clockVars, lobbyVars, inputVars, rasterVars,
                   states, stateOrder, svgDoc, isLoaded,
                   spatialIndex, indexedFrom, lastLookup, lastRender, loads, globeVars>>

UnhighlightState(stateId) ==
    /\ stateElements' = unhighlightState(stateElements, stateId)
    /\ Log(Call("unhighlightState", <<stateId>>, FALSE, "undefined"))
    /\ UNCHANGED <<gameVars, clockVars, lobbyVars, inputVars, rasterVars,
                   states, stateOrder, svgDoc, isLoaded,
                   spatialIndex, indexedFrom, lastLookup, lastRender, loads, globeVars>>

----------------------------------------------------------------------------
(* MapManager.renderToCanvas and InputHandler.refreshTexture *)

\* One write into the canvas: the ocean fill of call `by`, or the image of
\* call `by` (the element fills serialized when the call started)
CanvasFill(by) == [op |-> "fillRect", by |-> by, image |-> << >>]
CanvasImage(by, image) == [op |-> "drawImage", by |-> by, image |-> <<image>>]

\* XMLSerializer.serializeToString(this.svgDoc): the fills at call time
Serialized(elements) == [id \in DOMAIN elements |-> elements[id].fill]

\* refreshTexture(), up to the await: nothing unless the map is loaded;
\* otherwise renderToCanvas fills the canvas and starts loading the image.
\* elements is the element map the handler leaves.
RefreshTexture(elements) ==
    IF ~isLoaded
    THEN UNCHANGED rasterVars
    ELSE /\ renders < MaxRenders
         /\ renders' = renders + 1
         /\ mapCanvas' = Some(<<CanvasFill(renders + 1)>>)
         /\ inflight' = inflight \cup {[id |-> renders + 1, image |-> Serialized(elements)]}
         /\ lastRasterAt' = Some(now)
         /\ UNCHANGED mapTexture

\* img.onload of one pending call: drawImage, resolve; then refreshTexture
\* resumes and updateMapTexture copies the canvas
ImageLoaded(r) ==
    /\ r \in inflight
    /\ mapCanvas' = Some(Append(mapCanvas[1], CanvasImage(r.id, r.image)))
    /\ mapTexture' = mapCanvas'
    /\ inflight' = inflight \ {r}
    /\ selectCalls' = << >>
    /\ Log(Call("image.onload", << >>, FALSE, "undefined"))
    /\ UNCHANGED <<renders, lastRasterAt, now, lastHoverCheck, mouse, hoveredState,
                   selectedState, mapVars, globeVars, indexedFrom, lastLookup, lastRender, loads, gameVars,
                   clockVars, lobbyVars>>

\* img.onerror of one pending call: reject, caught by refreshTexture
ImageFailed(r) ==
    /\ r \in inflight
    /\ inflight' = inflight \ {r}
    /\ selectCalls' = << >>
    /\ Log(Call("image.onerror", << >>, FALSE, "undefined"))
    /\ UNCHANGED <<mapCanvas, mapTexture, renders, lastRasterAt, now, lastHoverCheck,
                   mouse, hoveredState, selectedState, mapVars, globeVars,
                   indexedFrom, lastLookup, lastRender, loads, gameVars,
                   clockVars, lobbyVars>>

----------------------------------------------------------------------------
(* StratcomGame: game speed and game date; HUDController: speed buttons *)

START_DATE == [year |-> 2025, month |-> 1, day |-> 1]

\* the constructors of StratcomGame, HUDController and GlobeRenderer
InitClock ==
    /\ gameDate = START_DATE
    /\ gameSpeed = 0
    /\ currentSpeed = 0
    /\ autoRotate = TRUE

\* setGameSpeed(speed): the game's speed, hud.setSpeed(speed) and
\* globe.setAutoRotate(speed === 0)
setGameSpeed(speed) ==
    /\ gameSpeed' = speed
    /\ currentSpeed' = speed
    /\ autoRotate' = (speed = 0)

togglePause == IF gameSpeed = 0 THEN setGameSpeed(1) ELSE setGameSpeed(0)

increaseSpeed == setGameSpeed(Min(gameSpeed + 1, 3))

decreaseSpeed == setGameSpeed(Max(gameSpeed - 1, 0))

\* the onKeyPress callback main.js installs on the input handler
onKeyPress(key) ==
    CASE key = " " -> togglePause
      [] key \in {"+", "="} -> increaseSpeed
      [] key = "-" -> decreaseSpeed
      [] OTHER -> UNCHANGED <<gameSpeed, currentSpeed, autoRotate>>

\* the HUD's control buttons and the speed each click handler passes on
HudButtons == [pause |-> 0, play |-> 1, fast |-> 2]

\* click on a control button: this.setSpeed(speed), then
\* this.onSpeedChange?.(speed); init() installs onSpeedChange in
\* setupHUDCallbacks, the step that takes it to 'ready'
HudPress(button) ==
    /\ initStage # "start"
    /\ IF initStage = "ready"
       THEN setGameSpeed(HudButtons[button])
       ELSE /\ currentSpeed' = HudButtons[button]
            /\ UNCHANGED <<gameSpeed, autoRotate>>
    /\ selectCalls' = << >>
    /\ Log(Call("hud.click", <<button>>, FALSE, "undefined"))
    /\ UNCHANGED <<gameDate, lobbyVars, gameVars, now, lastHoverCheck, mouse, hoveredState,
                   selectedState, rasterVars, mapVars, globeVars, indexedFrom, lastLookup,
                   lastRender, loads>>

daysInMonth_LeapYear == <<31, 29, 31, 30, 31, 30, 31, 31, 30, 31, 30, 31>>

daysInMonth == <<31, 28, 31, 30, 31, 30, 31, 31, 30, 31, 30, 31>>

\* tick() applied to a date at a speed
tick(date, speed) ==
    IF speed = 0 THEN date
    ELSE IF date.day + 1 > daysInMonth[date.month]
    THEN IF date.month + 1 > 12
         THEN [year |-> date.year + 1, month |-> 1, day |-> 1]
         ELSE [year |-> date.year, month |-> date.month + 1, day |-> 1]
    ELSE [date EXCEPT !.day = date.day + 1]

Tick ==
    /\ gameDate.year <= MaxYear
    /\ gameDate' = tick(gameDate, gameSpeed)
    /\ selectCalls' = << >>
    /\ Log(Call("tick", << >>, FALSE, "undefined"))
    /\ UNCHANGED <<gameSpeed, currentSpeed, autoRotate, lobbyVars, gameVars, now,
                   lastHoverCheck, mouse, hoveredState, selectedState, rasterVars, mapVars,
                   globeVars, indexedFrom, lastLookup, lastRender, loads>>

----------------------------------------------------------------------------
(* InputHandler: event handlers *)

hoverThrottleMs == 50

\* The surface points the pointer visits, << >> being off the globe
MousePoints == { Null, <<Deg(10), Deg(10)>>, <<Deg(-10), Deg(-10)>>, <<Deg(89), Deg(179)>> }

\* getStateAtMouse(): << >> or <<id>>; a state object is identified by its
\* id because main.js loads the map once
getStateAtMouse(at) ==
    IF at = Null THEN Null
    ELSE LET found == findStateAtCoords(at[1], at[2]).value
         IN IF found = Null THEN Null ELSE Some(found[1].id)

\* checkHover()
CheckHover(at) ==
    LET state == getStateAtMouse(at)
        unhighlighted == IF hoveredState # Null
                         THEN unhighlightState(stateElements, hoveredState[1])
                         ELSE stateElements
        elements == IF state # Null
                    THEN highlightState(unhighlighted, state[1], "#2a3530")
                    ELSE unhighlighted
    IN IF state # hoveredState
       THEN /\ stateElements' = elements
            /\ hoveredState' = state
            /\ RefreshTexture(elements)
       ELSE UNCHANGED <<stateElements, hoveredState, rasterVars>>

\* selectState(state); the callbacks are those main.js installs
SelectState(state) ==
    LET unhighlighted == IF selectedState # Null
                         THEN unhighlightState(stateElements, selectedState[1])
                         ELSE stateElements
        elements == IF state # Null
                    THEN highlightState(unhighlighted, state[1], "#3a4540")
                    ELSE unhighlighted
    IN /\ selectedState' = state
       /\ stateElements' = elements
       /\ selectCalls' = <<state>>
       /\ RefreshTexture(elements)

DeselectState_AlwaysNotifies ==
    IF selectedState # Null
    THEN LET elements == unhighlightState(stateElements, selectedState[1])
         IN /\ stateElements' = elements
            /\ selectedState' = Null
            /\ selectCalls' = <<Null>>
            /\ RefreshTexture(elements)
    ELSE /\ selectCalls' = <<Null>>
         /\ UNCHANGED <<stateElements, selectedState, rasterVars>>

\* deselectState()
DeselectState ==
    IF selectedState # Null
    THEN LET elements == unhighlightState(stateElements, selectedState[1])
         IN /\ stateElements' = elements
            /\ selectedState' = Null
            /\ selectCalls' = <<Null>>
            /\ RefreshTexture(elements)
    ELSE /\ selectCalls' = << >>
         /\ UNCHANGED <<stateElements, selectedState, rasterVars>>

MapRest == <<states, stateOrder, svgDoc, isLoaded, spatialIndex>>

MouseMove(at) ==
    /\ mouse' = at
    /\ IF now - lastHoverCheck >= hoverThrottleMs
       THEN /\ lastHoverCheck' = now
            /\ CheckHover(at)
       ELSE UNCHANGED <<lastHoverCheck, stateElements, hoveredState, rasterVars>>
    /\ selectCalls' = << >>
    /\ Log(Call("mousemove", << >>, FALSE, "undefined"))
    /\ UNCHANGED <<now, selectedState, MapRest, globeVars, indexedFrom, lastLookup,
                   lastRender, loads, gameVars,
                   clockVars, lobbyVars>>

\* mouseleave: clearHover()
MouseLeave ==
    /\ IF hoveredState # Null
       THEN LET elements == unhighlightState(stateElements, hoveredState[1])
            IN /\ stateElements' = elements
               /\ hoveredState' = Null
               /\ RefreshTexture(elements)
       ELSE UNCHANGED <<stateElements, hoveredState, rasterVars>>
    /\ selectCalls' = << >>
    /\ Log(Call("mouseleave", << >>, FALSE, "undefined"))
    /\ UNCHANGED <<now, lastHoverCheck, mouse, selectedState, MapRest, globeVars,
                   indexedFrom, lastLookup, lastRender, loads, gameVars,
                   clockVars, lobbyVars>>

\* click: ignored while the controls report a drag
Click(dragging) ==
    /\ IF dragging
       THEN /\ selectCalls' = << >>
            /\ UNCHANGED <<stateElements, selectedState, rasterVars>>
       ELSE IF getStateAtMouse(mouse) # Null
       THEN SelectState(getStateAtMouse(mouse))
       ELSE DeselectState
    /\ Log(CallFrom("click", << >>, FALSE, "undefined",
                    IF dragging THEN {"dragging"} ELSE {}))
    /\ UNCHANGED <<now, lastHoverCheck, mouse, hoveredState, MapRest, globeVars,
                   indexedFrom, lastLookup, lastRender, loads, gameVars,
                   clockVars, lobbyVars>>

ContextMenu ==
    /\ DeselectState
    /\ Log(Call("contextmenu", << >>, FALSE, "undefined"))
    /\ UNCHANGED <<now, lastHoverCheck, mouse, hoveredState, MapRest, globeVars,
                   indexedFrom, lastLookup, lastRender, loads, gameVars,
                   clockVars, lobbyVars>>

TouchStart(touches, at) ==
    /\ mouse' = IF touches = 1 THEN at ELSE mouse
    /\ selectCalls' = << >>
    /\ Log(Call("touchstart", << >>, FALSE, "undefined"))
    /\ UNCHANGED <<now, lastHoverCheck, hoveredState, selectedState, rasterVars, mapVars,
                   globeVars, indexedFrom, lastLookup, lastRender, loads, gameVars,
                   clockVars, lobbyVars>>

TouchEnd(changedTouches) ==
    /\ IF changedTouches = 1 /\ getStateAtMouse(mouse) # Null
       THEN SelectState(getStateAtMouse(mouse))
       ELSE /\ selectCalls' = << >>
            /\ UNCHANGED <<stateElements, selectedState, rasterVars>>
    /\ Log(Call("touchend", << >>, FALSE, "undefined"))
    /\ UNCHANGED <<now, lastHoverCheck, mouse, hoveredState, MapRest, globeVars,
                   indexedFrom, lastLookup, lastRender, loads, gameVars,
                   clockVars, lobbyVars>>

KeyDown(key, typing) ==
    /\ IF ~typing /\ key = "Escape"
       THEN DeselectState
       ELSE /\ selectCalls' = << >>
            /\ UNCHANGED <<stateElements, selectedState, rasterVars>>
    /\ IF ~typing
       THEN onKeyPress(key)
       ELSE UNCHANGED <<gameSpeed, currentSpeed, autoRotate>>
    /\ Log(CallFrom("keydown", <<key>>, FALSE, "undefined",
                    IF typing THEN {"typing"} ELSE {}))
    /\ UNCHANGED <<now, lastHoverCheck, mouse, hoveredState, MapRest, globeVars,
                   indexedFrom, lastLookup, lastRender, loads, gameVars,
                   gameDate, lobbyVars>>

\* time passes between two events
TimeSteps == {10, 50}

Advance(ms) ==
    /\ now + ms <= MaxTime
    /\ now' = now + ms
    /\ selectCalls' = << >>
    /\ Log(Call("advance", << >>, FALSE, "undefined"))
    /\ UNCHANGED <<lastHoverCheck, mouse, hoveredState, selectedState, rasterVars, mapVars,
                   globeVars, indexedFrom, lastLookup, lastRender, loads, gameVars,
                   clockVars, lobbyVars>>

----------------------------------------------------------------------------
(* SVGGlobeRenderer: constructor, colours *)

\* A colour '#rrggbb' is the tuple of its six hexadecimal digits.
HexDigit(c) ==
    CASE c = "0" -> 0 [] c = "1" -> 1 [] c = "2" -> 2 [] c = "3" -> 3
      [] c = "4" -> 4 [] c = "5" -> 5 [] c = "6" -> 6 [] c = "7" -> 7
      [] c = "8" -> 8 [] c = "9" -> 9 [] c = "a" -> 10 [] c = "b" -> 11
      [] c = "c" -> 12 [] c = "d" -> 13 [] c = "e" -> 14 [] c = "f" -> 15

\* parseInt(hexColor.slice(i, i + 2), 16) for the pair of digits at k, k + 1
ParseHexPair(hexColor, k) == 16 * HexDigit(hexColor[k]) + HexDigit(hexColor[k + 1])

\* the channels the canvas derives from a '#rrggbb' style
HexRgb(hexColor) ==
    <<ParseHexPair(hexColor, 1), ParseHexPair(hexColor, 3), ParseHexPair(hexColor, 5)>>

ownerColors ==
    [player     |-> <<"0", "0", "f", "f", "8", "8">>,
     ally       |-> <<"0", "0", "a", "a", "f", "f">>,
     neutral    |-> <<"8", "8", "8", "8", "8", "8">>,
     hostile    |-> <<"f", "f", "4", "4", "4", "4">>,
     contested  |-> <<"f", "f", "a", "a", "0", "0">>,
     unoccupied |-> <<"2", "a", "3", "a", "2", "a">>]

theme ==
    [ocean  |-> <<"0", "a", "1", "5", "2", "0">>,
     land   |-> <<"1", "5", "2", "5", "2", "0">>,
     border |-> <<"0", "0", "f", "f", "8", "8">>,
     borderWidth |-> 1,
     selectedBorder |-> <<"f", "f", "f", "f", "f", "f">>,
     selectedBorderWidth |-> 3]

Darken_Keep70(c) == (c * 7) \div 10

\* Math.floor(c * 0.3): for every channel 0..255 the double product floors
\* to floor(3c / 10)
Darken(c) == (c * 3) \div 10

\* the channels of the 'rgb(r, g, b)' string that adjustColorForLand returns
adjustColorForLand(hexColor) ==
    <<Darken(ParseHexPair(hexColor, 1)), Darken(ParseHexPair(hexColor, 3)),
      Darken(ParseHexPair(hexColor, 5))>>

InitGlobe ==
    /\ regions = [k \in {} |-> << >>]
    /\ regionOrder = << >>
    /\ globeSvgDoc = Null
    /\ textureCanvas = Null
    /\ texture = Null

----------------------------------------------------------------------------
(* SVGGlobeRenderer: loadSVG *)

\* a path element: id attribute (or none) and d attribute (or none)
GlobePath(id, d) == [id |-> id, d |-> d]

\* what fetch + DOMParser yield for the renderer: a rejected fetch, or a
\* document with or without an <svg> root, an optional viewBox, and paths
GlobeSources ==
    { [fetch |-> "reject", hasSvg |-> FALSE, viewBox |-> Null, paths |-> << >>],
      [fetch |-> "ok", hasSvg |-> FALSE, viewBox |-> Null, paths |-> << >>],
      [fetch |-> "ok", hasSvg |-> TRUE, viewBox |-> Some(<<1000, 500>>),
       paths |-> << GlobePath(Some("A"), Some("dA")), GlobePath(Some("B"), Some("dB")),
                    GlobePath(Some("C"), Null) >>],
      [fetch |-> "ok", hasSvg |-> TRUE, viewBox |-> Null,
       paths |-> << GlobePath(Null, Some("dX")) >>] }

\* `region_${this.regions.size}`
AutoId(size) ==
    CASE size = 0 -> "region_0" [] size = 1 -> "region_1" [] size = 2 -> "region_2"
      [] size = 3 -> "region_3" [] OTHER -> "region_n"

NewRegion(id, path) ==
    [id |-> id, pathData |-> path.d, owner |-> "unoccupied", selected |-> FALSE]

\* paths.forEach: reg = [regions, order]
RECURSIVE LoadPaths(_, _, _)
LoadPaths(reg, paths, i) ==
    IF i > Len(paths) THEN reg
    ELSE LET path == paths[i]
             id == IF path.id # Null THEN path.id[1]
                   ELSE AutoId(Cardinality(DOMAIN reg.regions))
         IN LoadPaths([regions |-> MapSet(reg.regions, id, NewRegion(id, path)),
                       order   |-> OrderSet(reg.order, reg.regions, id)],
                      paths, i + 1)

GlobeLoadSVG(src) ==
    /\ loads < MaxGlobeLoads
    /\ loads' = loads + 1
    /\ IF src.fetch # "ok"
       THEN /\ UNCHANGED globeVars
            /\ Log(Call("globe.loadSVG", << >>, FALSE, "false"))
       ELSE LET reg == LoadPaths([regions |-> regions, order |-> regionOrder],
                                 src.paths, 1)
            IN /\ globeSvgDoc' = Some([hasSvg |-> src.hasSvg, viewBox |-> src.viewBox])
               /\ regions' = reg.regions
               /\ regionOrder' = reg.order
               /\ UNCHANGED <<textureCanvas, texture>>
               /\ Log(Call("globe.loadSVG", << >>, FALSE, "true"))
    /\ UNCHANGED <<gameVars, clockVars, lobbyVars, inputVars, rasterVars,
                   mapVars, indexedFrom, lastLookup, lastRender>>

----------------------------------------------------------------------------
(* SVGGlobeRenderer: renderToCanvas *)

NoStyle == <<0, 0, 0>>

\* one canvas operation: what is drawn, with which style and line width, and
\* under which transform (the scale factors in effect, outermost first)
Draw(op, path, style, lineWidth) ==
    [op |-> op, path |-> path, style |-> style, lineWidth |-> lineWidth, ctm |-> << >>]

Under(ctm, ops) == [i \in DOMAIN ops |-> [ops[i] EXCEPT !.ctm = ctm]]

\* ctx.scale(width / svgWidth, height / svgHeight): each ratio kept as a pair
Scale(width, height, viewBox) == <<width, viewBox[1], height, viewBox[2]>>

\* Keys that every object literal inherits from Object.prototype: the lookup
\* this.ownerColors[key] finds a non-string value for them.
ObjectPrototypeKeys == {"constructor"}

renderRegion_LandOnly(region) ==
    IF region.pathData = Null THEN [ops |-> << >>, threw |-> FALSE]
    ELSE IF region.owner # "" /\ region.owner \in ObjectPrototypeKeys
    THEN [ops |-> << >>, threw |-> TRUE]
    ELSE LET fillColor ==
                 IF region.owner # "" /\ region.owner \in DOMAIN ownerColors
                 THEN adjustColorForLand(ownerColors[region.owner])
                 ELSE HexRgb(theme.land)
         IN [ops |-> << Draw("fill", region.pathData[1], HexRgb(theme.land), 0),
                        Draw("stroke", region.pathData[1],
                             IF region.selected THEN HexRgb(theme.selectedBorder)
                                                ELSE HexRgb(theme.border),
                             IF region.selected THEN theme.selectedBorderWidth
                                                ELSE theme.borderWidth) >>,
             threw |-> FALSE]

\* renderRegion(ctx, region): the operations issued for one region, and
\* whether the call throws (adjustColorForLand calls hexColor.slice, which
\* an inherited value does not have)
renderRegion(region) ==
    IF region.pathData = Null THEN [ops |-> << >>, threw |-> FALSE]
    ELSE IF region.owner # "" /\ region.owner \in ObjectPrototypeKeys
    THEN [ops |-> << >>, threw |-> TRUE]
    ELSE LET fillColor ==
                 IF region.owner # "" /\ region.owner \in DOMAIN ownerColors
                 THEN adjustColorForLand(ownerColors[region.owner])
                 ELSE HexRgb(theme.land)
         IN [ops |-> << Draw("fill", region.pathData[1], fillColor, 0),
                        Draw("stroke", region.pathData[1],
                             IF region.selected THEN HexRgb(theme.selectedBorder)
                                                ELSE HexRgb(theme.border),
                             IF region.selected THEN theme.selectedBorderWidth
                                                ELSE theme.borderWidth) >>,
             threw |-> FALSE]

\* this.regions.forEach(...): stops at the first region that throws
RECURSIVE RenderRegions(_, _, _)
RenderRegions(regs, order, i) ==
    IF i > Len(order) THEN [ops |-> << >>, threw |-> FALSE]
    ELSE LET one == renderRegion(regs[order[i]])
         IN IF one.threw THEN one
            ELSE LET rest == RenderRegions(regs, order, i + 1)
                 IN [ops |-> one.ops \o rest.ops, threw |-> rest.threw]

OceanFill == Draw("fillRect", "canvas", HexRgb(theme.ocean), 0)
IceCaps == Draw("iceCaps", "canvas", NoStyle, 0)
GridLines == Draw("gridLines", "canvas", NoStyle, 1)
FallbackMap ==
    << OceanFill, Draw("continents", "canvas", HexRgb(theme.land), 2), IceCaps, GridLines >>

\* viewBox[2], viewBox[3] of the parsed attribute, or of [0, 0, 2000, 1000]
ViewBoxOf(doc) == IF doc.viewBox # Null THEN doc.viewBox[1] ELSE <<2000, 1000>>

\* Everything renderToCanvas is given: catalog (regions, their order, the
\* document they came from), ownership, selection, canvas size
RenderInput(regs, order, doc, canvas) ==
    [regions |-> regs, order |-> order, svgDoc |-> doc,
     size |-> IF canvas = Null THEN Null ELSE <<canvas[1].width, canvas[1].height>>]

\* The call's outcome: [threw, ops, marks, ctm], ops being the drawing
\* operations issued in order, marks whether texture.needsUpdate is reached,
\* and ctm the transform the context is left with: ctx.restore() is skipped
\* when a region throws between ctx.save() and it.
renderToCanvas(regs, order, doc, canvas) ==
    IF canvas = Null
    THEN \* this.textureCanvas.width of null: TypeError
         [threw |-> TRUE, ops |-> << >>, marks |-> FALSE, ctm |-> << >>]
    ELSE LET ctm == canvas[1].ctm
         IN IF doc = Null
            THEN [threw |-> FALSE, ops |-> Under(ctm, <<OceanFill>> \o FallbackMap),
                  marks |-> FALSE, ctm |-> ctm]
            ELSE IF ~doc[1].hasSvg
            THEN \* svgElement is null: TypeError on getAttribute, after the ocean fill
                 [threw |-> TRUE, ops |-> Under(ctm, <<OceanFill>>), marks |-> FALSE,
                  ctm |-> ctm]
            ELSE LET scaled == Append(ctm, Scale(canvas[1].width, canvas[1].height,
                                                 ViewBoxOf(doc[1])))
                     drawn == RenderRegions(regs, order, 1)
                 IN IF drawn.threw
                    THEN [threw |-> TRUE,
                          ops |-> Under(ctm, <<OceanFill>>) \o Under(scaled, drawn.ops),
                          marks |-> FALSE, ctm |-> scaled]
                    ELSE [threw |-> FALSE,
                          ops |-> Under(ctm, <<OceanFill>>) \o Under(scaled, drawn.ops)
                                  \o Under(ctm, <<IceCaps, GridLines>>),
                          marks |-> TRUE, ctm |-> ctm]

\* fillRect(0, 0, width, height) covers the canvas when no factor of the
\* transform in effect shrinks it
CoversCanvas(op) ==
    /\ op.op = "fillRect"
    /\ \A k \in DOMAIN op.ctm : op.ctm[k][1] >= op.ctm[k][2] /\ op.ctm[k][3] >= op.ctm[k][4]

\* The canvas after the operations: an opaque fill over the whole canvas
\* hides everything drawn before it.
RECURSIVE Paint(_, _, _)
Paint(pixels, ops, i) ==
    IF i > Len(ops) THEN pixels
    ELSE Paint(IF CoversCanvas(ops[i]) THEN <<ops[i]>> ELSE Append(pixels, ops[i]),
               ops, i + 1)

\* The effect of a renderToCanvas call made with the regions regs
\* (the caller's updates applied): canvas, texture and the record of the call
RenderEffect(regs) ==
    LET r == renderToCanvas(regs, regionOrder, globeSvgDoc, textureCanvas)
    IN  /\ Len(r.ctm) <= MaxSaved
        /\ textureCanvas' =
              IF textureCanvas = Null THEN Null
              ELSE Some([textureCanvas[1] EXCEPT !.pixels = Paint(@, r.ops, 1),
                                                 !.ctm = r.ctm])
        /\ texture' = IF r.marks /\ texture # Null
                      THEN Some([needsUpdate |-> TRUE]) ELSE texture
        /\ lastRender' = Some([input |-> RenderInput(regs, regionOrder, globeSvgDoc,
                                                     textureCanvas),
                               ops |-> r.ops])

RenderThrows(regs) == renderToCanvas(regs, regionOrder, globeSvgDoc, textureCanvas).threw

----------------------------------------------------------------------------
(* SVGGlobeRenderer: createGlobe and the mutators *)

NewCanvas(width, height) ==
    [width |-> width, height |-> height, pixels |-> << >>, ctm |-> << >>]

\* createGlobe: a new 2048 x 1024 canvas, the initial render, then the texture
CreateGlobe ==
    LET canvas == Some(NewCanvas(2048, 1024))
        r == renderToCanvas(regions, regionOrder, globeSvgDoc, canvas)
    IN  /\ textureCanvas' = Some([canvas[1] EXCEPT !.pixels = Paint(@, r.ops, 1),
                                                    !.ctm = r.ctm])
        /\ lastRender' = Some([input |-> RenderInput(regions, regionOrder, globeSvgDoc,
                                                     canvas),
                               ops |-> r.ops])
        \* new THREE.CanvasTexture(canvas): a new texture starts out needing upload
        /\ texture' = IF r.threw THEN texture ELSE Some([needsUpdate |-> TRUE])
        /\ Log(Call("createGlobe", << >>, r.threw, IF r.threw THEN "undefined" ELSE "globe"))
        /\ UNCHANGED <<gameVars, clockVars, lobbyVars, inputVars, rasterVars,
                       regions, regionOrder, globeSvgDoc,
                       mapVars, indexedFrom, lastLookup, loads>>

\* the owner values a caller passes; "" stands for null
Owners == {"player", "USA", "constructor", ""}

\* the identifiers a caller passes: catalogued ones and one that never is
GlobeIds == {"A", "B", "Z"}
GlobeIdLists == { <<"A", "B">>, <<"Z">> }

SetRegionOwner_UnlessRenderThrows(regionId, owner) ==
    /\ IF regionId \in DOMAIN regions
       THEN LET regs == [regions EXCEPT ![regionId].owner = owner]
            IN /\ regions' = IF RenderThrows(regs) THEN regions ELSE regs
               /\ RenderEffect(regs)
               /\ Log(CallFrom("setRegionOwner", <<regionId>>, RenderThrows(regs), "undefined",
                               {owner}))
       ELSE /\ UNCHANGED <<regions, textureCanvas, texture, lastRender>>
            /\ Log(CallFrom("setRegionOwner", <<regionId>>, FALSE, "undefined", {owner}))
    /\ UNCHANGED <<gameVars, clockVars, lobbyVars, inputVars, rasterVars,
                   regionOrder, globeSvgDoc, mapVars,
                   indexedFrom, lastLookup, loads>>

SetRegionOwner(regionId, owner) ==
    /\ IF regionId \in DOMAIN regions
       THEN LET regs == [regions EXCEPT ![regionId].owner = owner]
            IN /\ regions' = regs
               /\ RenderEffect(regs)
               /\ Log(CallFrom("setRegionOwner", <<regionId>>, RenderThrows(regs), "undefined",
                               {owner}))
       ELSE /\ UNCHANGED <<regions, textureCanvas, texture, lastRender>>
            /\ Log(CallFrom("setRegionOwner", <<regionId>>, FALSE, "undefined", {owner}))
    /\ UNCHANGED <<gameVars, clockVars, lobbyVars, inputVars, rasterVars,
                   regionOrder, globeSvgDoc, mapVars,
                   indexedFrom, lastLookup, loads>>

SetRegionsOwner(regionIds, owner) ==
    LET named == {regionIds[i] : i \in DOMAIN regionIds}
        regs == [id \in DOMAIN regions |->
                    IF id \in named THEN [regions[id] EXCEPT !.owner = owner]
                    ELSE regions[id]]
    IN  /\ regions' = regs
        /\ RenderEffect(regs)
        /\ Log(CallFrom("setRegionsOwner", regionIds, RenderThrows(regs), "undefined",
                        {owner}))
        /\ UNCHANGED <<gameVars, clockVars, lobbyVars, inputVars, rasterVars,
                       regionOrder, globeSvgDoc, mapVars,
                       indexedFrom, lastLookup, loads>>

\* getRegionsByOwner(owner): the regions, in forEach order, whose owner is
\* strictly equal to the argument
getRegionsByOwner(regs, order, owner) ==
    SelectSeq(order, LAMBDA id : regs[id].owner = owner)

GetRegionsByOwner(owner) ==
    /\ Log(CallFrom("getRegionsByOwner", getRegionsByOwner(regions, regionOrder, owner),
                    FALSE, "regions", {owner}))
    /\ UNCHANGED <<gameVars, clockVars, lobbyVars, inputVars, rasterVars,
                   mapVars, globeVars, indexedFrom, lastLookup,
                   lastRender, loads>>

SelectedIds == {id \in DOMAIN regions : regions[id].selected}

SelectRegion_KeepOthers(regionId) ==
    /\ IF regionId \in DOMAIN regions
       THEN LET regs == [regions EXCEPT ![regionId].selected = TRUE]
            IN /\ regions' = regs
               /\ RenderEffect(regs)
               /\ Log(CallFrom("selectRegion", <<regionId>>, RenderThrows(regs),
                               IF RenderThrows(regs) THEN "undefined" ELSE "region",
                               SelectedIds))
       ELSE /\ UNCHANGED <<regions, textureCanvas, texture, lastRender>>
            /\ Log(CallFrom("selectRegion", <<regionId>>, FALSE, "null", SelectedIds))
    /\ UNCHANGED <<gameVars, clockVars, lobbyVars, inputVars, rasterVars,
                   regionOrder, globeSvgDoc, mapVars,
                   indexedFrom, lastLookup, loads>>

SelectRegion(regionId) ==
    LET deselected == [id \in DOMAIN regions |-> [regions[id] EXCEPT !.selected = FALSE]]
    IN  /\ IF regionId \in DOMAIN regions
           THEN LET regs == [deselected EXCEPT ![regionId].selected = TRUE]
                IN /\ regions' = regs
                   /\ RenderEffect(regs)
                   /\ Log(CallFrom("selectRegion", <<regionId>>, RenderThrows(regs),
                               IF RenderThrows(regs) THEN "undefined" ELSE "region",
                               SelectedIds))
           ELSE /\ regions' = deselected
                /\ UNCHANGED <<textureCanvas, texture, lastRender>>
                /\ Log(CallFrom("selectRegion", <<regionId>>, FALSE, "null", SelectedIds))
        /\ UNCHANGED <<gameVars, clockVars, lobbyVars, inputVars, rasterVars,
                       regionOrder, globeSvgDoc, mapVars,
                       indexedFrom, lastLookup, loads>>

UpdateTexture ==
    /\ RenderEffect(regions)
    /\ Log(Call("updateTexture", << >>, RenderThrows(regions), "undefined"))
    /\ UNCHANGED <<gameVars, clockVars, lobbyVars, inputVars, rasterVars,
                   regions, regionOrder, globeSvgDoc, mapVars,
                   indexedFrom, lastLookup, loads>>

\* The rendering collaborator draws a frame: a texture that needs it is
\* uploaded from the canvas, which clears the mark.
UploadTexture ==
    /\ texture # Null
    /\ texture[1].needsUpdate
    /\ texture' = Some([needsUpdate |-> FALSE])
    /\ Log(Call("uploadTexture", << >>, FALSE, "undefined"))
    /\ UNCHANGED <<gameVars, clockVars, lobbyVars, inputVars, rasterVars,
                   regions, regionOrder, globeSvgDoc,
                   textureCanvas, mapVars, indexedFrom, lastLookup, lastRender, loads>>

----------------------------------------------------------------------------
(* The region renderer: catalog, ownership, selection and rasterization *)

InitRegions == InitMap /\ InitGlobe /\ InitLog /\ InitInput /\ InitGame
                /\ InitClock /\ InitLobby

NextRegions ==
    \/ \E src \in GlobeSources : GlobeLoadSVG(src)
    \/ CreateGlobe
    \/ \E id \in GlobeIds, owner \in Owners : SetRegionOwner(id, owner)
    \/ \E ids \in GlobeIdLists, owner \in Owners : SetRegionsOwner(ids, owner)
    \/ \E id \in GlobeIds : SelectRegion(id)
    \/ UpdateTexture
    \/ UploadTexture

SpecRegions == InitRegions /\ [][NextRegions]_vars

\* getAllStateIds(): Array.from(this.states.keys()), recorded in the ids of
\* the call
GetAllStateIds ==
    /\ Log(Call("getAllStateIds", stateOrder, FALSE, "ids"))
    /\ UNCHANGED <<gameVars, clockVars, lobbyVars, inputVars, rasterVars,
                   mapVars, globeVars, indexedFrom, lastLookup,
                   lastRender, loads>>

----------------------------------------------------------------------------
(* Ownership of the renderer's regions and the queries over it *)

\* the owner values asked for: those assigned and the one set at load
QueriedOwners == Owners \cup {"unoccupied"}

InitOwnership == InitMap /\ InitGlobe /\ InitLog /\ InitInput /\ InitGame
                /\ InitClock /\ InitLobby

NextOwnership ==
    \/ \E src \in GlobeSources : GlobeLoadSVG(src)
    \/ CreateGlobe
    \/ \E id \in GlobeIds, owner \in Owners : SetRegionOwner(id, owner)
    \/ \E ids \in GlobeIdLists, owner \in Owners : SetRegionsOwner(ids, owner)
    \/ \E owner \in QueriedOwners : GetRegionsByOwner(owner)

SpecOwnership == InitOwnership /\ [][NextOwnership]_vars

----------------------------------------------------------------------------
(* StratcomGame.init: globe, map candidates, first rasterization, input *)

\* loadMap's candidates, in the order it tries them
mapPaths == << "assets/maps/world.svg", "assets/maps/MapChart_Map.svg", "assets/world.svg" >>

\* what a candidate path can deliver
GameMapSources ==
    { [fetch |-> "reject", wellFormed |-> FALSE, elems |-> << >>],
      [fetch |-> "notok", wellFormed |-> FALSE, elems |-> << >>],
      [fetch |-> "ok", wellFormed |-> FALSE, elems |-> << >>],
      [fetch |-> "ok", wellFormed |-> TRUE, elems |-> << >>],
      [fetch |-> "ok", wellFormed |-> TRUE,
       elems |-> << PathAt("A", Deg(10), Deg(10)), PathAt("B", Deg(-10), Deg(-10)),
                    PathEl("C", NoAttr, NoAttr) >>] }

\* applyRadarTheme(): the land colour on every catalogued element
applyRadarTheme(elements) ==
    [id \in DOMAIN elements |-> [elements[id] EXCEPT !.fill = "#1a2520"]]

\* the canvas generateProceduralMap draws: ocean, then continents and grid
ProceduralCanvas ==
    << CanvasFill(0), CanvasImage(0, [layer \in {"continents"} |-> "#1a2520"]) >>

\* this.input = new InputHandler(...); this.input.init(); ...; 'ready'.
\* setupMouseHandlers reads this.globe.renderer.domElement, which throws when
\* globe.init() failed before the renderer was set up; init's catch reports it.
StageAfterInput == IF globeInit = "ok" THEN "ready" ELSE "failed"

\* await this.globe.init(): it catches its own errors and returns false,
\* which init() does not look at
GameGlobeInit(ok) ==
    /\ initStage = "start"
    /\ initStage' = "loadMap"
    /\ globeInit' = IF ok THEN "ok" ELSE "failed"
    /\ Log(Call("globe.init", << >>, FALSE, IF ok THEN "true" ELSE "false"))
    /\ UNCHANGED <<clockVars, lobbyVars,
                   pathsTried, proceduralMaps, inputVars, rasterVars, mapVars, globeVars,
                   indexedFrom, lastLookup, lastRender, loads>>

GameLoadMap_ProceduralPerFailure(src) ==
    LET r == loadSVG(src)
        themed == applyRadarTheme(r.elements)
    IN  /\ initStage = "loadMap"
        /\ pathsTried < Len(mapPaths)
        /\ pathsTried' = pathsTried + 1
        /\ loads' = loads + 1
        /\ svgDoc' = r.svgDoc
        /\ states' = r.states
        /\ stateOrder' = r.order
        /\ isLoaded' = r.isLoaded
        /\ Log(CallFrom("loadSVG", <<mapPaths[pathsTried + 1]>>, FALSE, r.ret,
                        SourceKind(src)))
        /\ lastLookup' = Null
        /\ IF r.ret = "true"
           THEN /\ stateElements' = themed
                /\ mapCanvas' = Some(<<CanvasFill(renders + 1)>>)
                /\ inflight' = inflight \cup {[id |-> renders + 1,
                                               image |-> Serialized(themed)]}
                /\ renders' = renders + 1
                /\ lastRasterAt' = Some(now)
                /\ initStage' = "render"
                /\ UNCHANGED <<mapTexture, proceduralMaps>>
           ELSE IF pathsTried + 1 = Len(mapPaths)
           THEN /\ proceduralMaps' = proceduralMaps + 1
                /\ mapTexture' = IF globeInit = "ok" THEN Some(ProceduralCanvas)
                                 ELSE mapTexture
                /\ initStage' = StageAfterInput
                /\ stateElements' = r.elements
                /\ UNCHANGED <<mapCanvas, inflight, renders, lastRasterAt>>
           ELSE /\ stateElements' = r.elements
                /\ proceduralMaps' = proceduralMaps + 1
                /\ mapTexture' = IF globeInit = "ok" THEN Some(ProceduralCanvas)
                                 ELSE mapTexture
                /\ UNCHANGED <<initStage, mapCanvas, inflight, renders, lastRasterAt>>
        /\ UNCHANGED <<clockVars, lobbyVars, globeInit, inputVars, spatialIndex, globeVars,
                       indexedFrom,
                       lastRender>>

\* One iteration of loadMap's loop, up to the next await.  A candidate that
\* loads ends the loop: applyRadarTheme, then renderToCanvas fills the canvas
\* and starts loading the image.  When the last candidate fails, init goes on
\* without awaiting: generateProceduralMap (updateMapTexture is a no-op
\* without the globe's texture), then the input handler.
GameLoadMap(src) ==
    LET r == loadSVG(src)
        themed == applyRadarTheme(r.elements)
    IN  /\ initStage = "loadMap"
        /\ pathsTried < Len(mapPaths)
        /\ pathsTried' = pathsTried + 1
        /\ loads' = loads + 1
        /\ svgDoc' = r.svgDoc
        /\ states' = r.states
        /\ stateOrder' = r.order
        /\ isLoaded' = r.isLoaded
        /\ Log(CallFrom("loadSVG", <<mapPaths[pathsTried + 1]>>, FALSE, r.ret,
                        SourceKind(src)))
        /\ lastLookup' = Null
        /\ IF r.ret = "true"
           THEN /\ stateElements' = themed
                /\ mapCanvas' = Some(<<CanvasFill(renders + 1)>>)
                /\ inflight' = inflight \cup {[id |-> renders + 1,
                                               image |-> Serialized(themed)]}
                /\ renders' = renders + 1
                /\ lastRasterAt' = Some(now)
                /\ initStage' = "render"
                /\ UNCHANGED <<mapTexture, proceduralMaps>>
           ELSE IF pathsTried + 1 = Len(mapPaths)
           THEN /\ proceduralMaps' = proceduralMaps + 1
                /\ mapTexture' = IF globeInit = "ok" THEN Some(ProceduralCanvas)
                                 ELSE mapTexture
                /\ initStage' = StageAfterInput
                /\ stateElements' = r.elements
                /\ UNCHANGED <<mapCanvas, inflight, renders, lastRasterAt>>
           ELSE /\ stateElements' = r.elements
                /\ UNCHANGED <<initStage, proceduralMaps, rasterVars>>
        /\ UNCHANGED <<clockVars, lobbyVars, globeInit, inputVars, spatialIndex, globeVars,
                       indexedFrom,
                       lastRender>>

\* img.onload of the first rasterization: init resumes with updateMapTexture
\* and the input handler
GameImageLoaded(r) ==
    /\ initStage = "render"
    /\ r \in inflight
    /\ mapCanvas' = Some(Append(mapCanvas[1], CanvasImage(r.id, r.image)))
    /\ mapTexture' = IF globeInit = "ok" THEN mapCanvas' ELSE mapTexture
    /\ inflight' = inflight \ {r}
    /\ initStage' = StageAfterInput
    /\ Log(Call("image.onload", << >>, FALSE, "undefined"))
    /\ UNCHANGED <<clockVars, lobbyVars,
                   globeInit, pathsTried, proceduralMaps, renders, lastRasterAt,
                   inputVars, mapVars, globeVars, indexedFrom, lastLookup, lastRender,
                   loads>>

\* img.onerror of the first rasterization: the rejection reaches init's catch
GameImageFailed(r) ==
    /\ initStage = "render"
    /\ r \in inflight
    /\ inflight' = inflight \ {r}
    /\ initStage' = "failed"
    /\ Log(Call("image.onerror", << >>, FALSE, "undefined"))
    /\ UNCHANGED <<clockVars, lobbyVars,
                   globeInit, pathsTried, proceduralMaps, mapCanvas, mapTexture, renders,
                   lastRasterAt, inputVars, mapVars, globeVars, indexedFrom, lastLookup,
                   lastRender, loads>>

InitStratcom == InitMap /\ InitGlobe /\ InitLog /\ InitInput /\ InitGame
                /\ InitClock /\ InitLobby

\* The listeners exist once the input handler is initialised.  No handler
\* finds a region (nothing builds the index), so none starts a rasterization
\* whose image could load afterwards.
NextStratcom ==
    \/ \E ok \in BOOLEAN : GameGlobeInit(ok)
    \/ \E src \in GameMapSources : GameLoadMap(src)
    \/ \E r \in inflight : GameImageLoaded(r)
    \/ \E r \in inflight : GameImageFailed(r)
    \/ initStage = "ready" /\ \E at \in MousePoints : MouseMove(at)
    \/ initStage = "ready" /\ MouseLeave
    \/ initStage = "ready" /\ \E dragging \in BOOLEAN : Click(dragging)
    \/ initStage = "ready" /\ ContextMenu
    \/ initStage = "ready" /\ \E key \in {"Escape", "a"}, typing \in BOOLEAN :
                                  KeyDown(key, typing)
    \/ initStage = "ready" /\ \E ms \in TimeSteps : Advance(ms)

SpecStratcom == InitStratcom /\ [][NextStratcom]_vars

----------------------------------------------------------------------------
(* The catalog, spatial index and point locator of a MapManager *)

InitIndex == InitMap /\ InitGlobe /\ InitLog /\ InitInput /\ InitGame
                /\ InitClock /\ InitLobby

NextIndex ==
    \/ \E src \in MapSources : LoadSVG(src)
    \/ BuildSpatialIndex(CatalogData)
    \/ \E q \in Queries : FindStateAtCoords(q[1], q[2])
    \/ GetAllStateIds

SpecIndex == InitIndex /\ [][NextIndex]_vars

----------------------------------------------------------------------------
(* Mutators of both region stores, called with catalogued and unknown ids *)

MutationMapSources ==
    { [fetch |-> "ok", wellFormed |-> TRUE,
       elems |-> << PathAt("A", Deg(10), Deg(10)), GroupEl("C") >>] }
MutationGlobeSources ==
    { [fetch |-> "ok", hasSvg |-> TRUE, viewBox |-> Some(<<1000, 500>>),
       paths |-> << GlobePath(Some("A"), Some("dA")), GlobePath(Some("B"), Some("dB")) >>] }
MutationIds == {"A", "Z"}
MutationIdLists == { <<"Z">>, <<"A", "Z">> }
Colors == {"#ff0000"}
Payloads == { [population |-> 5] }

InitMutations == InitMap /\ InitGlobe /\ InitLog /\ InitInput /\ InitGame
                /\ InitClock /\ InitLobby

NextMutations ==
    \/ \E src \in MutationMapSources : LoadSVG(src)
    \/ \E src \in MutationGlobeSources : GlobeLoadSVG(src)
    \/ CreateGlobe
    \/ \E id \in MutationIds : SetRegionOwner(id, "player")
    \/ \E ids \in MutationIdLists : SetRegionsOwner(ids, "hostile")
    \/ \E id \in MutationIds : SelectRegion(id)
    \/ \E id \in MutationIds, color \in Colors : SetStateColor(id, color)
    \/ \E id \in MutationIds, data \in Payloads : UpdateStateData(id, data)
    \/ \E id \in MutationIds : HighlightState(id, "#2a3530")
    \/ \E id \in MutationIds : UnhighlightState(id)

SpecMutations == InitMutations /\ [][NextMutations]_vars

----------------------------------------------------------------------------
(* The input handler: pointer, touch and key events, and the renders they start *)

InputMapSources ==
    { [fetch |-> "ok", wellFormed |-> TRUE,
       elems |-> << PathAt("A", Deg(10), Deg(10)), PathAt("B", Deg(-10), Deg(-10)),
                    PathEl("C", NoAttr, NoAttr) >>] }

InitInputHandler == InitMap /\ InitGlobe /\ InitLog /\ InitInput /\ InitGame
                /\ InitClock /\ InitLobby

NextInput ==
    \/ \E src \in InputMapSources : loads = 0 /\ LoadSVG(src)
    \/ BuildSpatialIndex(CatalogData)
    \/ \E at \in MousePoints : MouseMove(at)
    \/ MouseLeave
    \/ \E dragging \in BOOLEAN : Click(dragging)
    \/ ContextMenu
    \/ \E touches \in {1, 2}, at \in MousePoints : TouchStart(touches, at)
    \/ \E changedTouches \in {1, 2} : TouchEnd(changedTouches)
    \/ \E key \in {"Escape", "a"}, typing \in BOOLEAN : KeyDown(key, typing)
    \/ \E ms \in TimeSteps : Advance(ms)
    \/ \E r \in inflight : ImageLoaded(r)
    \/ \E r \in inflight : ImageFailed(r)

SpecInput == InitInputHandler /\ [][NextInput]_vars

----------------------------------------------------------------------------
(* The input handler's selection events, within one throttle window *)

InitSelection == InitMap /\ InitGlobe /\ InitLog /\ InitInput /\ InitGame
                /\ InitClock /\ InitLobby

NextSelection ==
    \/ \E src \in InputMapSources : loads = 0 /\ LoadSVG(src)
    \/ BuildSpatialIndex(CatalogData)
    \/ \E at \in MousePoints : MouseMove(at)
    \/ \E dragging \in BOOLEAN : Click(dragging)
    \/ ContextMenu
    \/ \E touches \in {1, 2}, at \in MousePoints : TouchStart(touches, at)
    \/ \E changedTouches \in {1, 2} : TouchEnd(changedTouches)
    \/ \E key \in {"Escape", "a"}, typing \in BOOLEAN : KeyDown(key, typing)
    \/ \E r \in inflight : ImageLoaded(r)
    \/ \E r \in inflight : ImageFailed(r)

SpecSelection == InitSelection /\ [][NextSelection]_vars

----------------------------------------------------------------------------
(* adjustColorForLand applied to base colours *)

Hex == {"0", "1", "2", "3", "4", "5", "6", "7", "8", "9", "a", "b", "c", "d", "e", "f"}

\* every value of every channel, next to both extremes of the other two
BaseColours ==
    { <<"2", "a", "3", "a", "4", "a">> }
    \cup { <<h, l, "0", "0", "f", "f">> : h \in Hex, l \in Hex }
    \cup { <<"f", "f", h, l, "0", "0">> : h \in Hex, l \in Hex }
    \cup { <<"0", "0", "f", "f", h, l>> : h \in Hex, l \in Hex }

AdjustColorForLand(hexColor) ==
    /\ Log(Call("adjustColorForLand", hexColor, FALSE, adjustColorForLand(hexColor)))
    /\ UNCHANGED <<gameVars, clockVars, lobbyVars, inputVars, rasterVars,
                   mapVars, globeVars, indexedFrom, lastLookup,
                   lastRender, loads>>

InitColour == InitMap /\ InitGlobe /\ InitLog /\ InitInput /\ InitGame
                /\ InitClock /\ InitLobby

NextColour == \E hexColor \in BaseColours : AdjustColorForLand(hexColor)

SpecColour == InitColour /\ [][NextColour]_vars

----------------------------------------------------------------------------
(* FirebaseService: multiplayer lobby *)

\* a client that is not signed in has currentUser << >>
CurrentUsers == {Null} \cup {Some(u) : u \in Users}

\* what a caller passes as lobbyData.maxPlayers: nothing, 0 or 2
MaxPlayersGiven == {Null, Some(0), Some(2)}

PlayerCount(lobbyData) == Cardinality(DOMAIN lobbyData.players)

\* createLobby(lobbyData): lobbyRef.set of a new document whose only player
\* is the host; the model follows the document of one lobby code
CreateLobby(user, maxPlayers) ==
    /\ lobby = Null
    /\ IF user = Null
       THEN /\ Log(Call("createLobby", << >>, FALSE, "Must be logged in"))
            /\ UNCHANGED lobby
       ELSE /\ lobby' = Some([status |-> "waiting",
                              maxPlayers |-> IF maxPlayers = Null \/ maxPlayers[1] = 0
                                             THEN 8 ELSE maxPlayers[1],
                              hostId |-> user[1],
                              players |-> [u \in {user[1]} |-> [isHost |-> TRUE]]])
            /\ Log(Call("createLobby", user, FALSE, "success"))
    /\ UNCHANGED <<joining, gameVars, clockVars, inputVars, rasterVars, mapVars, globeVars,
                   indexedFrom, lastLookup, lastRender, loads>>

\* joinLobby(lobbyCode) up to its second await: the sign-in check,
\* lobbyRef.get() and the checks made on the data it returned
JoinLobbyGet(user) ==
    /\ user # Null => joining[user[1]] = Null
    /\ IF user = Null
       THEN /\ Log(Call("joinLobby", << >>, FALSE, "Must be logged in"))
            /\ UNCHANGED joining
       ELSE IF lobby = Null
       THEN /\ Log(Call("joinLobby", user, FALSE, "Lobby not found"))
            /\ UNCHANGED joining
       ELSE IF lobby[1].status # "waiting"
       THEN /\ Log(Call("joinLobby", user, FALSE, "Game already in progress"))
            /\ UNCHANGED joining
       ELSE IF PlayerCount(lobby[1]) >= lobby[1].maxPlayers
       THEN /\ Log(Call("joinLobby", user, FALSE, "Lobby is full"))
            /\ UNCHANGED joining
       ELSE /\ joining' = [joining EXCEPT ![user[1]] = lobby]
            /\ Log(Call("lobbyRef.get", user, FALSE, "undefined"))
    /\ UNCHANGED <<lobby, gameVars, clockVars, inputVars, rasterVars, mapVars, globeVars,
                   indexedFrom, lastLookup, lastRender, loads>>

\* the rest of joinLobby: lobbyRef.update sets players.<uid> in the document
\* as it is then, and the call returns the data it read
JoinLobbyUpdate(uid) ==
    /\ joining[uid] # Null
    /\ lobby # Null
    /\ lobby' = Some([lobby[1] EXCEPT !.players =
                          [u \in DOMAIN @ \cup {uid} |->
                              IF u = uid THEN [isHost |-> FALSE] ELSE @[u]]])
    /\ joining' = [joining EXCEPT ![uid] = Null]
    /\ Log(Call("joinLobby", Some(uid), FALSE, "success"))
    /\ UNCHANGED <<gameVars, clockVars, inputVars, rasterVars, mapVars, globeVars,
                   indexedFrom, lastLookup, lastRender, loads>>

\* leaveLobby(lobbyCode): lobbyRef.update deletes players.<uid>; without
\* the document the update rejects and the catch reports the failure
LeaveLobby(user) ==
    /\ IF user = Null
       THEN /\ Log(Call("leaveLobby", << >>, FALSE, "failure"))
            /\ UNCHANGED lobby
       ELSE IF lobby = Null
       THEN /\ Log(Call("leaveLobby", user, FALSE, "failure"))
            /\ UNCHANGED lobby
       ELSE /\ lobby' = Some([lobby[1] EXCEPT !.players =
                                 [u \in DOMAIN @ \ {user[1]} |-> @[u]]])
            /\ Log(Call("leaveLobby", user, FALSE, "success"))
    /\ UNCHANGED <<joining, gameVars, clockVars, inputVars, rasterVars, mapVars, globeVars,
                   indexedFrom, lastLookup, lastRender, loads>>

InitLobbies == InitMap /\ InitGlobe /\ InitLog /\ InitInput /\ InitGame
                /\ InitClock /\ InitLobby

NextLobby ==
    \/ \E user \in CurrentUsers, maxPlayers \in MaxPlayersGiven : CreateLobby(user, maxPlayers)
    \/ \E user \in CurrentUsers : JoinLobbyGet(user)
    \/ \E uid \in Users : JoinLobbyUpdate(uid)
    \/ \E user \in CurrentUsers : LeaveLobby(user)

SpecLobby == InitLobbies /\ [][NextLobby]_vars

----------------------------------------------------------------------------
(* The game's speed controls and clock, from the start of init() *)

\* every candidate path fails or one delivers a map without territories
ClockMapSources ==
    { [fetch |-> "notok", wellFormed |-> FALSE, elems |-> << >>] }

ClockKeys == {" ", "+", "=", "-", "Escape"}

InitClockSpec == InitMap /\ InitGlobe /\ InitLog /\ InitInput /\ InitGame
                  /\ InitClock /\ InitLobby

NextClock ==
    \/ \E ok \in BOOLEAN : GameGlobeInit(ok)
    \/ \E src \in ClockMapSources : GameLoadMap(src)
    \/ \E button \in DOMAIN HudButtons : HudPress(button)
    \/ initStage = "ready" /\ \E key \in ClockKeys, typing \in BOOLEAN : KeyDown(key, typing)
    \/ Tick

SpecClock == InitClockSpec /\ [][NextClock]_vars

----------------------------------------------------------------------------
(* Properties of the spatial index and the point locator (SpecIndex) *)

\* The index was last built over the catalog's regions as they are now.
IndexFresh == indexedFrom = Some(CatalogData)

Centroided == {id \in DOMAIN states : states[id].centroid # Null}

\* the lookup made at the centroid of region id
LookupAtCentroidOf(id) ==
    /\ lastLookup # Null
    /\ states[id].centroid = <<lastLookup[1].lat, lastLookup[1].lon>>

\* C2 (index completeness): once the index is built over the catalog, a
\* lookup at the centroid of a catalogued region returns that region or a
\* region with the same centroid, also on the clamped grid edges.
C2_IndexCompleteness ==
    IndexFresh =>
        \A id \in Centroided :
            LookupAtCentroidOf(id) =>
                /\ ~lastLookup[1].threw
                /\ lastLookup[1].value # Null
                /\ \/ lastLookup[1].value[1].id = id
                   \/ lastLookup[1].value[1].centroid = states[id].centroid

\* a lookup at the centroid (-90, 180), whose home cell index is clamped
C2_Witness ==
    /\ IndexFresh
    /\ \E id \in Centroided :
        /\ LookupAtCentroidOf(id)
        /\ states[id].centroid = <<Deg(-90), Deg(180)>>
        /\ lastLookup[1].value = Some(states[id])

DistTo(id) ==
    haversineDistance(lastLookup[1].lat, lastLookup[1].lon,
                      states[id].centroid[1], states[id].centroid[2])

\* great-circle distance of at most 1 degree: sin^2(d/2) <= sin^2(0.5 deg)
WithinAngularRadius(id) == DistTo(id) <= HavTab(Deg(1))

NoCloserCentroid(id) == \A other \in Centroided \ {id} : ~(DistTo(other) < DistTo(id))

\* C3 as stated: a query within 1 degree (the radius of the neighbourhood
\* expansion) of a region's centroid, with no other centroid closer,
\* resolves to that region.
C3_AngularRadiusResolves ==
    (IndexFresh /\ lastLookup # Null) =>
        \A id \in Centroided :
            (WithinAngularRadius(id) /\ NoCloserCentroid(id)) =>
                lastLookup[1].value = Some(states[id])

\* latitude and longitude each within 2 cells (1 degree), taken unwrapped
WithinNeighbourhood(id) ==
    /\ Abs(lastLookup[1].lat - states[id].centroid[1]) <= Deg(1)
    /\ Abs(lastLookup[1].lon - states[id].centroid[2]) <= Deg(1)

\* C3 (amended): a query whose latitude and longitude each differ by at
\* most 1 degree from a region's centroid, with no other centroid closer,
\* resolves to that region or to a region whose centroid is exactly as close.
C3_NeighbourhoodResolves ==
    (IndexFresh /\ lastLookup # Null) =>
        \A id \in Centroided :
            (WithinNeighbourhood(id) /\ NoCloserCentroid(id)) =>
                /\ ~lastLookup[1].threw
                /\ lastLookup[1].value # Null
                /\ \/ lastLookup[1].value[1].id = id
                   \/ /\ lastLookup[1].value[1].id \in Centroided
                      /\ DistTo(lastLookup[1].value[1].id) = DistTo(id)

\* a query two cells away from the centroid's home cell resolves to the region
C3_Witness ==
    /\ IndexFresh
    /\ lastLookup # Null
    /\ \E id \in Centroided :
        /\ WithinNeighbourhood(id)
        /\ NoCloserCentroid(id)
        /\ CellOf(lastLookup[1].lat, lastLookup[1].lon)
             # CellOf(states[id].centroid[1], states[id].centroid[2])
        /\ Abs(lastLookup[1].lat - states[id].centroid[1]) = Deg(1)
        /\ lastLookup[1].value = Some(states[id])

\* C4: a region without a centroid is never returned by a lookup, whatever
\* loads and builds came before, and a build over the catalog puts no such
\* region into a cell.
C4_NoCentroidNeverReturned ==
    /\ lastLookup # Null =>
          (lastLookup[1].value # Null => lastLookup[1].value[1].centroid # Null)
    /\ IndexFresh =>
          \A cell \in DOMAIN spatialIndex :
              \A i \in 1..Len(spatialIndex[cell]) :
                  spatialIndex[cell][i] \in Centroided

\* a lookup whose cell still lists a region that has since lost its centroid
C4_Witness ==
    /\ lastLookup # Null
    /\ \E i \in 1..Len(lastLookup[1].candidates) :
          /\ lastLookup[1].candidates[i] \in DOMAIN states
          /\ states[lastLookup[1].candidates[i]].centroid = Null
    /\ \E id \in Centroided : TRUE

\* C5: a lookup whose grid cell holds no candidates returns null and does
\* not throw: far from every centroid, before any build, out of range.
C5_NoCandidateReturnsNull ==
    (lastLookup # Null /\ lastLookup[1].candidates = << >>) =>
        (~lastLookup[1].threw /\ lastLookup[1].value = Null)

\* an out-of-range query, clamped into a cell with no candidates, after a
\* build over a catalog that has centroids
C5_Witness ==
    /\ lastLookup # Null
    /\ lastLookup[1].candidates = << >>
    /\ lastLookup[1].lat > Deg(90)
    /\ IndexFresh
    /\ Centroided # {}
    /\ lastLookup[1].value = Null

\* C9: a buildSpatialIndex call with the input of the previous build leaves
\* the index as that build left it, whatever was there before the first.
C9_BuildIdempotent ==
    [][(lastCall'.op = "buildSpatialIndex" /\ indexedFrom # Null
            /\ indexedFrom' = indexedFrom)
        => spatialIndex' = spatialIndex]_vars

\* two builds in a row over a catalog with centroids
C9_Witness ==
    /\ lastCall.op = "buildSpatialIndex"
    /\ lastCall.pre = {"same input"}
    /\ spatialIndex # EmptyGrid

----------------------------------------------------------------------------
(* Properties of selection and rasterization in the region renderer
   (SpecRegions) *)

\* C1: at most one region is selected at any time, and after
\* selectRegion(B) for a catalogued B, B is the one selected region:
\* whatever was selected before the call (A, say) is no longer selected.
C1_SelectionExclusive ==
    /\ Cardinality(SelectedIds) <= 1
    /\ (lastCall.op = "selectRegion" /\ lastCall.ids[1] \in DOMAIN regions)
           => SelectedIds = {lastCall.ids[1]}

\* selectRegion("B") was called while "A" was selected
C1_Witness ==
    /\ lastCall.op = "selectRegion"
    /\ lastCall.ids = <<"B">>
    /\ lastCall.pre = {"A"}
    /\ "A" \in DOMAIN regions
    /\ regions["B"].selected
    /\ ~regions["A"].selected

\* C10 (as stated): what a renderToCanvas call draws is determined by the
\* catalog, the ownership and the selection it is given: every call issues
\* the operations, under the transforms, that a call with the same input
\* issues on a canvas whose context nothing has touched yet, so any two calls
\* with equal inputs draw the same.
C10_RenderDeterminism ==
    (lastRender # Null /\ lastRender[1].input.size # Null)
        => LET input == lastRender[1].input
           IN lastRender[1].ops =
                  renderToCanvas(input.regions, input.order, input.svgDoc,
                                 Some(NewCanvas(input.size[1], input.size[2]))).ops

----------------------------------------------------------------------------
(* Mutation calls that name unknown identifiers (SpecMutations) *)

RendererMutators == {"setRegionOwner", "setRegionsOwner", "selectRegion"}
MapMutators == {"setStateColor", "updateStateData", "highlightState", "unhighlightState"}

\* the call names identifiers, none of which is catalogued
NamesOnlyUnknownIds(call) ==
    /\ call.op \in RendererMutators \cup MapMutators
    /\ call.ids # << >>
    /\ \A i \in DOMAIN call.ids :
           call.ids[i] \notin (IF call.op \in RendererMutators
                               THEN DOMAIN regions ELSE DOMAIN states)

\* C6 (as stated): a mutation call whose identifiers are all unknown leaves
\* owner, selected flag, colour and data of every catalogued region as they
\* were, and does not throw.
C6_UnknownIdIsNoOp ==
    [][NamesOnlyUnknownIds(lastCall')
          => /\ regions' = regions
             /\ states' = states
             /\ stateElements' = stateElements
             /\ ~lastCall'.threw]_vars

----------------------------------------------------------------------------
(* Rasterization started by input events (SpecInput) *)

\* C7 (as stated): a renderToCanvas call never starts less than one
\* throttle window (hoverThrottleMs) after the previous one started.
C7_RasterThrottled ==
    [][(renders' = renders + 1 /\ lastRasterAt # Null)
          => now - lastRasterAt[1] >= hoverThrottleMs]_vars

\* C8 (as stated): while a renderToCanvas call is in flight (it has cleared
\* the canvas and not yet drawn its image), the canvas holds its ocean fill
\* and nothing written by another call.
C8_NoInterleavedWrites ==
    \A r \in inflight : mapCanvas = Some(<<CanvasFill(r.id)>>)

----------------------------------------------------------------------------
(* Colour derivation (SpecColour) *)

\* C11: for a base colour #rrggbb adjustColorForLand returns the channels
\* floor(0.3 r), floor(0.3 g), floor(0.3 b), each within 0..76; for #2a3a4a
\* they are 12, 17, 22.
C11_ColourDerivation ==
    lastCall.op = "adjustColorForLand"
        => LET base == HexRgb(lastCall.ids)
               rgb == lastCall.ret
           IN /\ \A k \in 1..3 :
                     /\ rgb[k] \in 0..76
                     /\ 10 * rgb[k] <= 3 * base[k]
                     /\ 3 * base[k] < 10 * rgb[k] + 10
              /\ lastCall.ids = <<"2", "a", "3", "a", "4", "a">> => rgb = <<12, 17, 22>>

C11_Witness ==
    /\ lastCall.op = "adjustColorForLand"
    /\ lastCall.ids = <<"2", "a", "3", "a", "4", "a">>
    /\ lastCall.ret = <<12, 17, 22>>

----------------------------------------------------------------------------
(* The texture mark, failures and ownership in the region renderer
   (SpecRegions) *)

\* the call ran renderToCanvas on a renderer whose texture may exist already
RenderedBy(call) ==
    \/ call.op \in {"setRegionsOwner", "updateTexture"}
    \/ /\ call.op \in {"setRegionOwner", "selectRegion"}
       /\ call.ids[1] \in DOMAIN regions

\* C12 (as stated): when a call that ran renderToCanvas has returned and a
\* texture exists, the texture is marked as needing upload.
C12_RenderMarksTexture ==
    (RenderedBy(lastCall) /\ ~lastCall.threw /\ texture # Null)
        => texture[1].needsUpdate

----------------------------------------------------------------------------
(* Map loading (SpecIndex) *)

----------------------------------------------------------------------------
(* Rasterization failures (SpecRegions) *)

\* C14 (as stated): every call that runs renderToCanvas on a created canvas
\* runs to completion, whatever the catalog and the document are.
C14_RenderCompletes ==
    (textureCanvas # Null /\ (RenderedBy(lastCall) \/ lastCall.op = "createGlobe"))
        => ~lastCall.threw

----------------------------------------------------------------------------
(* Order of the catalog (SpecIndex) *)

IdsOf(seq) == {seq[i] : i \in DOMAIN seq}
NoRepeat(seq) == \A i, j \in DOMAIN seq : seq[i] = seq[j] => i = j
FirstOf(elems, id, tag) ==
    CHOOSE i \in DOMAIN elems :
        /\ elems[i].id = id /\ elems[i].tag = tag
        /\ \A j \in 1..(i - 1) : ~(elems[j].id = id /\ elems[j].tag = tag)
\* identified paths in document order, then identified groups in document order
Rank(elems, id) ==
    IF \E i \in DOMAIN elems : elems[i].id = id /\ elems[i].tag = "path"
    THEN FirstOf(elems, id, "path")
    ELSE Len(elems) + FirstOf(elems, id, "g")
AppendsInRank(old, elems, new) ==
    /\ NoRepeat(new)
    /\ IdsOf(new) = IdsOf(old) \cup {elems[i].id : i \in DOMAIN elems}
    /\ Len(new) >= Len(old)
    /\ SubSeq(new, 1, Len(old)) = old
    /\ \A i, j \in (Len(old) + 1)..Len(new) :
           i < j => Rank(elems, new[i]) < Rank(elems, new[j])

\* C15 (as stated): getAllStateIds returns every identifier once, and of two
\* identified elements of the loaded document the earlier one comes first.
C15_DocumentOrder ==
    (lastCall.op = "getAllStateIds" /\ isLoaded /\ svgDoc # Null /\ svgDoc[1].wellFormed)
        => LET elems == svgDoc[1].elems
               ids == lastCall.ids
           IN /\ NoRepeat(ids)
              /\ \A i, j \in DOMAIN elems :
                     i < j => \E p, q \in DOMAIN ids :
                                 /\ p < q
                                 /\ ids[p] = elems[i].id
                                 /\ ids[q] = elems[j].id

\* C15 (amended): getAllStateIds returns every catalogued identifier once, in
\* insertion order; a successful load keeps the identifiers catalogued
\* before it in place and appends the document's new identifiers, those of
\* paths in document order first, then those of groups in document order.
C15_InsertionOrder ==
    [][/\ lastCall'.op = "getAllStateIds"
            => /\ lastCall'.ids = stateOrder
               /\ NoRepeat(lastCall'.ids)
               /\ IdsOf(lastCall'.ids) = DOMAIN states
       /\ (lastCall'.op = "loadSVG" /\ lastCall'.ret = "true")
            => AppendsInRank(stateOrder, svgDoc'[1].elems, stateOrder')]_vars

\* the identifiers were asked for after loading a document whose first
\* identified element is a group and whose second is a path
C15_Witness ==
    /\ lastCall.op = "getAllStateIds"
    /\ lastCall.ids = <<"B", "C">>
    /\ svgDoc # Null
    /\ svgDoc[1].wellFormed
    /\ Len(svgDoc[1].elems) = 2
    /\ svgDoc[1].elems[1].tag = "g"

----------------------------------------------------------------------------
(* Ownership (SpecOwnership) *)

OwnerOf(regs) == [id \in DOMAIN regs |-> regs[id].owner]

\* C16: a region catalogued by a load starts with the unowned sentinel;
\* setRegionOwner and setRegionsOwner give the regions they name the owner
\* passed and leave every other owner alone, whether or not the redraw
\* throws; no other call changes an owner; and getRegionsByOwner(n) returns,
\* once each and in catalog insertion order, exactly the regions whose
\* owner is n.
C16_OwnershipAgrees ==
    [][LET call == lastCall'
       IN /\ call.op = "globe.loadSVG"
               => \A id \in DOMAIN regions' \ DOMAIN regions :
                      regions'[id].owner = "unoccupied"
          /\ call.op = "setRegionOwner"
               => OwnerOf(regions') =
                     [id \in DOMAIN regions |->
                         IF id = call.ids[1] THEN CHOOSE o \in call.pre : TRUE
                         ELSE regions[id].owner]
          /\ call.op = "setRegionsOwner"
               => OwnerOf(regions') =
                     [id \in DOMAIN regions |->
                         IF \E i \in DOMAIN call.ids : call.ids[i] = id
                         THEN CHOOSE o \in call.pre : TRUE
                         ELSE regions[id].owner]
          /\ call.op \in {"createGlobe", "getRegionsByOwner"}
               => regions' = regions
          /\ call.op = "getRegionsByOwner"
               => /\ \A i, j \in DOMAIN call.ids : call.ids[i] = call.ids[j] => i = j
                  /\ {call.ids[i] : i \in DOMAIN call.ids}
                        = {id \in DOMAIN regions : regions[id].owner \in call.pre}
                  /\ \A i, j \in DOMAIN call.ids :
                        i < j => \E p, q \in DOMAIN regionOrder :
                                    /\ p < q
                                    /\ regionOrder[p] = call.ids[i]
                                    /\ regionOrder[q] = call.ids[j]]_vars

\* after A and B were given to one owner and A then to another, whose
\* redraw threw, a query for the first owner returns B alone
C16_Witness ==
    /\ lastCall.op = "getRegionsByOwner"
    /\ lastCall.pre = {"USA"}
    /\ lastCall.ids = <<"B">>
    /\ regions["A"].owner = "constructor"
    /\ regions["C"].owner = "unoccupied"

----------------------------------------------------------------------------
(* Game initialisation (SpecStratcom) *)

\* C17 (as stated): once init has loaded an SVG map and the input handler
\* accepts events, the spatial index has been built, and pointing at the
\* centroid of a catalogued region resolves to that region.
C17_IndexBuiltByReady ==
    (initStage = "ready" /\ isLoaded)
        => /\ indexedFrom # Null
           /\ \A id \in DOMAIN states :
                  states[id].centroid # Null
                      => getStateAtMouse(states[id].centroid) = Some(id)

----------------------------------------------------------------------------
(* Selection controls (SpecSelection) *)

InputEvents ==
    {"mousemove", "mouseleave", "click", "contextmenu", "touchstart", "touchend", "keydown"}

\* the step removed the selection / called onStateSelect(null)
SelectionRemoved == selectedState # Null /\ selectedState' = Null
NotifiedNull == \E i \in DOMAIN selectCalls' : selectCalls'[i] = Null

\* C18 (as stated): a click without drag on a territory selects it; a
\* right-click and every Escape key press leave nothing selected; at most one
\* territory is selected; and an event calls onStateSelect(null) exactly when
\* it removes the selection.
C18_SelectionControls ==
    [][LET call == lastCall'
       IN /\ (call.op = "click" /\ call.pre = {} /\ getStateAtMouse(mouse) # Null)
               => selectedState' = getStateAtMouse(mouse)
          /\ call.op = "contextmenu" => selectedState' = Null
          /\ (call.op = "keydown" /\ call.ids = <<"Escape">>) => selectedState' = Null
          /\ Len(selectedState') <= 1
          /\ call.op \in InputEvents => (NotifiedNull <=> SelectionRemoved)]_vars

\* C18 (amended): as above, but the Escape key deselects only when the key
\* event does not come from a text input; a key press from a text input
\* leaves the selection as it is.
C18_SelectionControlsOutsideInputs ==
    [][LET call == lastCall'
       IN /\ (call.op = "click" /\ call.pre = {} /\ getStateAtMouse(mouse) # Null)
               => selectedState' = getStateAtMouse(mouse)
          /\ call.op = "contextmenu" => selectedState' = Null
          /\ (call.op = "keydown" /\ call.ids = <<"Escape">> /\ call.pre = {})
               => selectedState' = Null
          /\ (call.op = "keydown" /\ call.pre = {"typing"})
               => selectedState' = selectedState
          /\ Len(selectedState') <= 1
          /\ call.op \in InputEvents => (NotifiedNull <=> SelectionRemoved)]_vars

\* an Escape press outside a text input has just removed the selection while
\* the pointer is on a territory, and onStateSelect(null) was called
C18_Witness ==
    /\ lastCall.op = "keydown"
    /\ lastCall.ids = <<"Escape">>
    /\ lastCall.pre = {}
    /\ selectCalls = <<Null>>
    /\ selectedState = Null
    /\ getStateAtMouse(mouse) # Null

----------------------------------------------------------------------------
(* Map fallback (SpecStratcom) *)

\* C19: init tries the candidate paths in their order, only while none has
\* loaded; the first that loads ends the search and no procedural map is
\* generated; when the last one fails the procedural map is generated, once,
\* and, the globe being initialised, init reaches "ready"; after that no
\* event starts a rasterization or changes the texture.
C19_MapFallback ==
    [][LET call == lastCall'
       IN /\ call.op = "loadSVG"
               => /\ initStage = "loadMap"
                  /\ ~isLoaded
                  /\ pathsTried' = pathsTried + 1
                  /\ call.ids = <<mapPaths[pathsTried']>>
                  /\ call.ret = "true"
                        => initStage' = "render" /\ proceduralMaps' = 0
                  /\ (call.ret = "false" /\ pathsTried' < Len(mapPaths))
                        => initStage' = "loadMap" /\ proceduralMaps' = 0
                  /\ (call.ret = "false" /\ pathsTried' = Len(mapPaths))
                        => /\ proceduralMaps' = 1
                           /\ globeInit = "ok"
                                 => /\ initStage' = "ready"
                                    /\ mapTexture' = Some(ProceduralCanvas)
          /\ call.op # "loadSVG" => proceduralMaps' = proceduralMaps
          /\ proceduralMaps' = 1 => ~isLoaded'
          /\ (initStage = "ready" /\ proceduralMaps = 1)
               => /\ initStage' = "ready"
                  /\ renders' = renders
                  /\ inflight' = inflight
                  /\ mapCanvas' = mapCanvas
                  /\ mapTexture' = mapTexture]_vars

\* none of the three candidates loaded, the procedural map is on the globe,
\* and a click at a point of the globe has been handled since
C19_Witness ==
    /\ initStage = "ready"
    /\ pathsTried = Len(mapPaths)
    /\ proceduralMaps = 1
    /\ ~isLoaded
    /\ mapTexture = Some(ProceduralCanvas)
    /\ renders = 0
    /\ lastCall.op = "click"
    /\ lastCall.pre = {}
    /\ mouse # Null

----------------------------------------------------------------------------
(* The nearest candidate (SpecIndex) *)

\* positions of the lookup's candidate list that name a catalogued region
\* with a centroid
Eligible ==
    {i \in DOMAIN lastLookup[1].candidates : lastLookup[1].candidates[i] \in Centroided}

\* C20: a lookup whose cell has candidates returns null when none of them is
\* a catalogued region with a centroid; otherwise it returns such a
\* candidate at minimum distance from the query point, and of several at
\* that distance the one that comes first in the candidate list.
C20_NearestFirstWins ==
    (lastLookup # Null /\ lastLookup[1].candidates # << >>) =>
        LET cands == lastLookup[1].candidates
        IN /\ ~lastLookup[1].threw
           /\ IF Eligible = {}
              THEN lastLookup[1].value = Null
              ELSE \E k \in Eligible :
                      /\ lastLookup[1].value = Some(states[cands[k]])
                      /\ \A i \in Eligible :
                            /\ DistTo(cands[k]) <= DistTo(cands[i])
                            /\ i < k => DistTo(cands[k]) < DistTo(cands[i])

\* two different candidates are equally near the query point and the one
\* listed first, B, listed before A, is returned
C20_Witness ==
    /\ lastLookup # Null
    /\ \E i, j \in Eligible :
          /\ i < j
          /\ lastLookup[1].candidates[i] = "B"
          /\ lastLookup[1].candidates[j] = "A"
          /\ DistTo("A") = DistTo("B")
          /\ \A k \in Eligible : k >= i
          /\ lastLookup[1].value = Some(states["B"])

----------------------------------------------------------------------------
(* The cells of a build (SpecIndex) *)

\* the cells whose candidate list names the region
CellsHolding(id) ==
    {cell \in DOMAIN spatialIndex :
        \E i \in DOMAIN spatialIndex[cell] : spatialIndex[cell][i] = id}

\* the 5x5 neighbourhood, clamped at the grid edges, of the home cell
\* clamped to the valid range
ClampedHomeNeighbourhood(id) ==
    LET homeX == Clamp(GridX(states[id].centroid[2]), cellsX - 1)
        homeY == Clamp(GridY(states[id].centroid[1]), cellsY - 1)
    IN  {Clamp(homeY + dy, cellsY - 1) * cellsX + Clamp(homeX + dx, cellsX - 1) :
            dx \in -2..2, dy \in -2..2}

\* C21 (as stated): after a build over the catalog, every region with a
\* centroid is held by exactly the cells of the clamped 5x5 neighbourhood
\* of its clamped home cell, also for centroids on the boundary or outside
\* the valid range.
C21_ClampedHomeCells ==
    IndexFresh => \A id \in Centroided : CellsHolding(id) = ClampedHomeNeighbourhood(id)

\* C22 (as stated): after a build over the catalog, whose identifiers are
\* distinct, no cell's candidate list names a region more than once, also
\* in the cells on the grid edges.
C22_CellsAreSets ==
    IndexFresh => \A cell \in DOMAIN spatialIndex : NoRepeat(spatialIndex[cell])

----------------------------------------------------------------------------
(* Land fill colour (SpecRegions) *)

\* the fill operations of the last render, and the regions it was given
FillOps == {k \in DOMAIN lastRender[1].ops : lastRender[1].ops[k].op = "fill"}
Rendered == lastRender[1].input.regions
Drawable == {id \in DOMAIN Rendered : Rendered[id].pathData # Null}
\* the render was given a canvas and a document and no region stops it
RenderRanThrough ==
    /\ lastRender[1].input.size # Null
    /\ lastRender[1].input.svgDoc # Null
    /\ lastRender[1].input.svgDoc[1].hasSvg
    /\ \A id \in Drawable : Rendered[id].owner \notin ObjectPrototypeKeys

PaletteFill(owner) ==
    IF owner \in DOMAIN ownerColors
    THEN adjustColorForLand(ownerColors[owner]) ELSE HexRgb(theme.land)
StatedFill(owner) ==
    IF owner = "unoccupied" THEN HexRgb(theme.land) ELSE PaletteFill(owner)

\* every fill is the fill of a drawable region in the colour Fill gives its
\* owner, and a render that ran through filled every drawable region
FillsFollow(Fill(_)) ==
    lastRender # Null =>
        /\ \A k \in FillOps :
              \E id \in Drawable :
                  /\ Rendered[id].pathData = Some(lastRender[1].ops[k].path)
                  /\ lastRender[1].ops[k].style = Fill(Rendered[id].owner)
        /\ RenderRanThrough =>
              \A id \in Drawable :
                  \E k \in FillOps :
                      Rendered[id].pathData = Some(lastRender[1].ops[k].path)

\* C23 (as stated): a region whose owner is a palette key is filled with
\* that key's darkened colour; an unclaimed region, as every region is right
\* after load, and a region whose owner is no palette key are filled with
\* the theme's land colour.
C23_LandFillStated == FillsFollow(StatedFill)

\* C23 (amended): the owner every region has after load, 'unoccupied', is
\* itself a palette key, so such a region is filled with the darkened
\* 'unoccupied' colour; only a region without owner or with an owner that
\* is no palette key gets the theme's land colour.
C23_LandFillPalette == FillsFollow(PaletteFill)

\* one render filled A in the darkened player colour, B in the darkened
\* 'unoccupied' colour
C23_Witness ==
    /\ lastRender # Null
    /\ RenderRanThrough
    /\ "A" \in Drawable /\ "B" \in Drawable
    /\ Rendered["A"].owner = "player"
    /\ Rendered["B"].owner = "unoccupied"
    /\ \E k \in FillOps :
          /\ lastRender[1].ops[k].path = "dA"
          /\ lastRender[1].ops[k].style = adjustColorForLand(ownerColors["player"])
    /\ \E k \in FillOps :
          /\ lastRender[1].ops[k].path = "dB"
          /\ lastRender[1].ops[k].style = <<12, 17, 12>>

----------------------------------------------------------------------------
(* Layer order of a render (SpecRegions) *)

\* position of a drawing operation in the z-order
Layer(op) ==
    CASE op.op = "fillRect" -> 0
      [] op.op \in {"fill", "stroke", "continents"} -> 1
      [] op.op = "iceCaps" -> 2
      [] op.op = "gridLines" -> 3

\* C24 (as stated): every renderToCanvas call on a created canvas issues
\* the ocean fill over the whole canvas first, then the regions, then the
\* ice caps, then the grid lines, each layer present and none before an
\* earlier one, and leaves on the canvas nothing but what it drew.
C24_FullRedrawInLayerOrder ==
    (lastRender # Null /\ lastRender[1].input.size # Null) =>
        LET ops == lastRender[1].ops
        IN /\ Len(ops) > 0
           /\ CoversCanvas(ops[1])
           /\ \A i, j \in DOMAIN ops : i < j => Layer(ops[i]) <= Layer(ops[j])
           /\ \A layer \in {0, 2, 3} : \E i \in DOMAIN ops : Layer(ops[i]) = layer
           /\ lastRender[1].input.svgDoc # Null =>
                 \A id \in Drawable :
                     \E i, j \in DOMAIN ops :
                         /\ i < j
                         /\ ops[i].op = "fill" /\ ops[j].op = "stroke"
                         /\ Rendered[id].pathData = Some(ops[i].path)
                         /\ Rendered[id].pathData = Some(ops[j].path)
           /\ textureCanvas # Null
           /\ textureCanvas[1].pixels = SubSeq(ops, Len(ops) - Len(textureCanvas[1].pixels) + 1,
                                               Len(ops))

----------------------------------------------------------------------------
(* The anti-meridian (SpecIndex) *)

ColumnOf(cell) == cell % cellsX
HomeColumn(state) == GridX(state.centroid[2])
Easternmost(column) == column >= cellsX - 3
Westernmost(column) == column <= 2

\* C25: the neighbourhood of a build is clamped at the grid edges and not
\* wrapped: a region whose centroid lies in the easternmost columns is held
\* by no cell of the westernmost columns and vice versa, and a lookup in
\* the westernmost columns returns no region of the easternmost columns
\* (and vice versa).
C25_NoWrapAcrossAntimeridian ==
    IndexFresh =>
        /\ \A id \in Centroided : \A cell \in CellsHolding(id) :
              /\ Easternmost(HomeColumn(states[id])) => ~Westernmost(ColumnOf(cell))
              /\ Westernmost(HomeColumn(states[id])) => ~Easternmost(ColumnOf(cell))
        /\ (lastLookup # Null /\ lastLookup[1].value # Null) =>
              LET queried == GridX(lastLookup[1].lon)
                  found == lastLookup[1].value[1]
              IN  /\ Westernmost(queried) => ~Easternmost(HomeColumn(found))
                  /\ Easternmost(queried) => ~Westernmost(HomeColumn(found))

\* region B lies a quarter degree west of +180, the lookup a quarter degree
\* east of -180 on the same latitude, and B is not among its candidates
C25_Witness ==
    /\ IndexFresh
    /\ "B" \in Centroided
    /\ states["B"].centroid = <<Deg(60), Deg(180) - 1>>
    /\ CellsHolding("B") # {}
    /\ lastLookup # Null
    /\ <<lastLookup[1].lat, lastLookup[1].lon>> = <<Deg(60), Deg(-180) + 1>>
    /\ \A i \in DOMAIN lastLookup[1].candidates : lastLookup[1].candidates[i] # "B"
    /\ lastLookup[1].value # Some(states["B"])

----------------------------------------------------------------------------
(* Highlight round trip (SpecInput) *)

\* C26 (as stated): whenever no territory is hovered and none is selected,
\* every territory's fill is the fill it was loaded with, which no event of
\* the input handler but a highlight changes.
C26_HighlightRoundTrip ==
    (hoveredState = Null /\ selectedState = Null) =>
        \A id \in DOMAIN stateElements : stateElements[id].fill = NewElement.fill

----------------------------------------------------------------------------
(* Texture freshness (SpecInput) *)

\* what the texture shows: the image drawn last on the canvas it was
\* copied from
Shown(canvas) == canvas[Len(canvas)].image

\* C27 (as stated): once no refreshTexture is pending and the image of the
\* most recent call has loaded, the texture shows the map state that call
\* serialized, in whatever order the image loads completed.
C27_TextureFresh ==
    (inflight = {} /\ mapTexture # Null) =>
        \A i \in DOMAIN mapTexture[1] :
            (mapTexture[1][i].op = "drawImage" /\ mapTexture[1][i].by = renders)
                => Shown(mapTexture[1]) = mapTexture[1][i].image

----------------------------------------------------------------------------
(* Lobby capacity (SpecLobby) *)

\* C28 (as stated): a lobby never records more players than its maxPlayers,
\* and a joinLobby call that added its player left a lobby whose status is
\* 'waiting', whatever the interleaving of the clients' reads and updates.
C28_LobbyCapacity ==
    lobby # Null =>
        /\ PlayerCount(lobby[1]) <= lobby[1].maxPlayers
        /\ (lastCall.op = "joinLobby" /\ lastCall.ret = "success")
              => lobby[1].status = "waiting"

----------------------------------------------------------------------------
(* Game speed (SpecClock) *)

SpeedsAgree ==
    /\ gameSpeed \in 0..3
    /\ currentSpeed = gameSpeed
    /\ autoRotate <=> (gameSpeed = 0)

\* the step is the Space key reaching togglePause
TogglePauseStep ==
    /\ lastCall'.op = "keydown"
    /\ lastCall'.ids = <<" ">>
    /\ lastCall'.pre = {}

\* C29 (as stated): after every key press and every press of a HUD speed
\* button the game speed is an integer in 0..3, the HUD's currentSpeed
\* equals it and the globe auto-rotates exactly when it is 0; togglePause
\* takes 0 to 1 and every other speed to 0.
C29_SpeedInvariant ==
    [][/\ SpeedsAgree'
       /\ TogglePauseStep => gameSpeed' = (IF gameSpeed = 0 THEN 1 ELSE 0)]_vars

\* What remains true: the same for the steps taken once init() has installed
\* its callbacks, from a state in which the controls agree.
SpeedInvariantOnceReady ==
    [][(initStage = "ready" /\ SpeedsAgree)
          => /\ SpeedsAgree'
             /\ TogglePauseStep => gameSpeed' = (IF gameSpeed = 0 THEN 1 ELSE 0)]_vars

----------------------------------------------------------------------------
(* Game date (SpecClock) *)

\* the calendar as the specification states it: 28 days for February
StatedDays(month) ==
    CASE month = 2 -> 28
      [] month \in {4, 6, 9, 11} -> 30
      [] OTHER -> 31

RECURSIVE DaysBefore(_)
DaysBefore(month) ==
    IF month = 1 THEN 0 ELSE DaysBefore(month - 1) + StatedDays(month - 1)

\* days since the last day of 2024
DayNumber(date) == (date.year - 2025) * 365 + DaysBefore(date.month) + date.day

DateValid(date) ==
    /\ date.month \in 1..12
    /\ date.day \in 1..StatedDays(date.month)

\* C30: from 2025-01-01 on, every step leaves a date with 1 <= month <= 12
\* and 1 <= day <= the days of that month (28 for February); a tick while
\* the speed is 0 leaves the date unchanged and a tick while running
\* advances it by exactly one day, through the ends of months and years.
C30_DateInvariant ==
    [][/\ DateValid(gameDate')
       /\ lastCall'.op = "tick" =>
             IF gameSpeed = 0
             THEN gameDate' = gameDate
             ELSE DayNumber(gameDate') = DayNumber(gameDate) + 1
       /\ lastCall'.op # "tick" => gameDate' = gameDate]_vars

\* a tick has rolled 2025-12-31 over into the next year
C30_Witness ==
    /\ lastCall.op = "tick"
    /\ gameSpeed # 0
    /\ gameDate = [year |-> START_DATE.year + 1, month |-> 1, day |-> 1]

============================================================================
